---- MODULE Spec2Model ----
(***************************************************************************)
(* Model of the Animal-Chess (Jungle) search engine, src/c/ai_engine.c and *)
(* src/c/ai_engine.h: the rules and move generator, the Zobrist hasher,    *)
(* the evaluator, move ordering, quiescence search, alpha-beta with        *)
(* transposition table, null-move pruning and late-move reductions, and    *)
(* the iterative-deepening driver findBestMoveWasm.                        *)
(*                                                                         *)
(* Conventions.  A board is a function from square index r*7+c to a piece  *)
(* record [type, player]; rank and value are read from PIECE_INFO by type, *)
(* as deserialize_board and simulate_move_and_update_hash set them.  The   *)
(* terrain field is the standard layout that the engine's own coordinate   *)
(* predicates (rules_is_river, the trap tests, the den constants) assume.  *)
(* A 64-bit Zobrist key is the tuple of its 8 bytes, least significant     *)
(* first; the keys are the ones the source's generator produces.           *)
(***************************************************************************)
EXTENDS Integers, Sequences, FiniteSets, TLC

(***************************************************************************)
(* Constants of ai_engine.h                                                *)
(***************************************************************************)
BOARD_ROWS == 9
BOARD_COLS == 7

TERRAIN_LAND == 0
TERRAIN_WATER == 1
TERRAIN_TRAP == 2
TERRAIN_PLAYER0_DEN == 3
TERRAIN_PLAYER1_DEN == 4

PLAYER_NONE == -1
PLAYER0 == 0
PLAYER1 == 1

PIECE_TYPE_RAT == 0
PIECE_TYPE_CAT == 1
PIECE_TYPE_DOG == 2
PIECE_TYPE_WOLF == 3
PIECE_TYPE_LEOPARD == 4
PIECE_TYPE_TIGER == 5
PIECE_TYPE_LION == 6
PIECE_TYPE_ELEPHANT == 7
NUM_PIECE_TYPES == 8
NO_PIECE == 9

PLAYER0_DEN_ROW == 8
PLAYER0_DEN_COL == 3
PLAYER1_DEN_ROW == 0
PLAYER1_DEN_COL == 3

GAME_STATUS_ONGOING == 1
GAME_STATUS_PLAYER0_WINS == 2
GAME_STATUS_PLAYER1_WINS == 3
GAME_STATUS_DRAW == 4

WIN_SCORE == 20000
LOSE_SCORE == -20000
DRAW_SCORE == 0

MAX_PLY_FOR_KILLERS == 30
MAX_Q_DEPTH == 4

HASH_EXACT == 0
HASH_LOWERBOUND == 1
HASH_UPPERBOUND == 2

\* PIECE_INFO[type]: rank and value, indexed by type + 1.
PIECE_INFO ==
  << [rank |-> 1, value |-> 200], [rank |-> 2, value |-> 200],
     [rank |-> 3, value |-> 300], [rank |-> 4, value |-> 400],
     [rank |-> 5, value |-> 500], [rank |-> 6, value |-> 700],
     [rank |-> 7, value |-> 800], [rank |-> 8, value |-> 650] >>

PieceTypes == 0 .. (NUM_PIECE_TYPES - 1)

Abs(x) == IF x < 0 THEN -x ELSE x

get_opponent(player) ==
  IF player = PLAYER0 THEN PLAYER1
  ELSE IF player = PLAYER1 THEN PLAYER0 ELSE PLAYER_NONE

(***************************************************************************)
(* Board representation                                                    *)
(***************************************************************************)
NumSquares == BOARD_ROWS * BOARD_COLS

Sq(r, c) == r * BOARD_COLS + c

RowOf(s) == s \div BOARD_COLS

ColOf(s) == s % BOARD_COLS

\* An empty square: piece.type = NO_PIECE (its player field is never read).
Empty == [type |-> NO_PIECE, player |-> PLAYER_NONE]

EmptyBoard == [s \in 0 .. (NumSquares - 1) |-> Empty]

\* The squares 0..62 in row-major order, the order of every board scan.
AllSquares == [i \in 1 .. NumSquares |-> i - 1]

is_valid_move_coords(r, c) == r >= 0 /\ r < BOARD_ROWS /\ c >= 0 /\ c < BOARD_COLS

rules_is_river(r, c) == r >= 3 /\ r <= 5 /\ (c = 1 \/ c = 2 \/ c = 4 \/ c = 5)

is_player0_trap(r, c) == (r = 8 /\ (c = 2 \/ c = 4)) \/ (r = 7 /\ c = 3)

is_player1_trap(r, c) == (r = 0 /\ (c = 2 \/ c = 4)) \/ (r = 1 /\ c = 3)

\* board->squares[r][c].terrain for the standard layout.
Terrain(r, c) ==
  IF rules_is_river(r, c) THEN TERRAIN_WATER
  ELSE IF is_player0_trap(r, c) \/ is_player1_trap(r, c) THEN TERRAIN_TRAP
  ELSE IF r = PLAYER0_DEN_ROW /\ c = PLAYER0_DEN_COL THEN TERRAIN_PLAYER0_DEN
  ELSE IF r = PLAYER1_DEN_ROW /\ c = PLAYER1_DEN_COL THEN TERRAIN_PLAYER1_DEN
  ELSE TERRAIN_LAND

\* A piece as deserialize_board builds it.
Piece(type, player) == [type |-> type, player |-> player]

\* A board from a set of placements <<type, player, r, c>>.
BoardOf(placements) ==
  [s \in 0 .. (NumSquares - 1) |->
     IF \E p \in placements : Sq(p[3], p[4]) = s
     THEN LET p == CHOOSE q \in placements : Sq(q[3], q[4]) = s
          IN Piece(p[1], p[2])
     ELSE Empty]

(***************************************************************************)
(* Rules                                                                   *)
(***************************************************************************)
\* The rank with the owner of the trap ignored: every trap neutralises.
EffectiveRankAnyTrap(piece, r, c) ==
  IF piece.type = NO_PIECE THEN 0
  ELSE IF Terrain(r, c) = TERRAIN_TRAP THEN 0
  ELSE PIECE_INFO[piece.type + 1].rank

rules_get_effective_rank(piece, r, c) ==
  IF piece.type = NO_PIECE THEN 0
  ELSE IF /\ Terrain(r, c) = TERRAIN_TRAP
          /\ \/ (piece.player = PLAYER0 /\ is_player1_trap(r, c))
             \/ (piece.player = PLAYER1 /\ is_player0_trap(r, c))
       THEN 0
       ELSE PIECE_INFO[piece.type + 1].rank

rules_can_capture(attacker, defender, att_r, att_c, def_r, def_c) ==
  IF \/ attacker.type = NO_PIECE
     \/ defender.type = NO_PIECE
     \/ attacker.player = defender.player
  THEN FALSE
  ELSE LET att_terrain == Terrain(att_r, att_c)
           def_terrain == Terrain(def_r, def_c)
       IN IF att_terrain = TERRAIN_WATER /\ attacker.type # PIECE_TYPE_RAT
          THEN FALSE
          ELSE IF /\ att_terrain = TERRAIN_WATER
                  /\ def_terrain # TERRAIN_WATER
                  /\ ~ ( /\ attacker.type = PIECE_TYPE_RAT
                         /\ defender.type = PIECE_TYPE_ELEPHANT
                         /\ def_terrain # TERRAIN_WATER )
          THEN FALSE
          ELSE IF /\ attacker.type = PIECE_TYPE_RAT
                  /\ defender.type = PIECE_TYPE_ELEPHANT
          THEN att_terrain # TERRAIN_WATER
          ELSE IF /\ attacker.type = PIECE_TYPE_ELEPHANT
                  /\ defender.type = PIECE_TYPE_RAT
          THEN FALSE
          ELSE rules_get_effective_rank(attacker, att_r, att_c)
                 >= rules_get_effective_rank(defender, def_r, def_c)

\* The Move struct.
Move(fr, fc, tr, tc, pt, cap) ==
  [from_row |-> fr, from_col |-> fc, to_row |-> tr, to_col |-> tc,
   piece_type |-> pt, captured_piece_type |-> cap, order_score |-> 0]

own_den_terrain(player) ==
  IF player = PLAYER0 THEN TERRAIN_PLAYER0_DEN ELSE TERRAIN_PLAYER1_DEN

\* The four neighbours in the order of dr[], dc_coords[].
StepTargets(r, c) == << <<r - 1, c>>, <<r + 1, c>>, <<r, c - 1>>, <<r, c + 1>> >>

\* The step test without the water test.
StepAllowedNoWaterTest(board, r, c, nr, nc, captures_only) ==
  /\ is_valid_move_coords(nr, nc)
  /\ LET piece == board[Sq(r, c)]
         target == board[Sq(nr, nc)]
     IN /\ ~ (captures_only /\ target.type = NO_PIECE)
        /\ Terrain(nr, nc) # own_den_terrain(piece.player)
        /\ ~ (target.type # NO_PIECE /\ target.player = piece.player)
        /\ (target.type # NO_PIECE /\ target.player # piece.player)
             => rules_can_capture(piece, target, r, c, nr, nc)

\* The body of the step loop: TRUE iff the loop reaches the emit statement.
StepAllowed(board, r, c, nr, nc, captures_only) ==
  /\ is_valid_move_coords(nr, nc)
  /\ LET piece == board[Sq(r, c)]
         target == board[Sq(nr, nc)]
     IN /\ ~ (captures_only /\ target.type = NO_PIECE)
        /\ Terrain(nr, nc) # own_den_terrain(piece.player)
        /\ ~ (Terrain(nr, nc) = TERRAIN_WATER /\ piece.type # PIECE_TYPE_RAT)
        /\ ~ (target.type # NO_PIECE /\ target.player = piece.player)
        /\ (target.type # NO_PIECE /\ target.player # piece.player)
             => rules_can_capture(piece, target, r, c, nr, nc)

\* One jump template: the landing square and the river cells on the way.
JumpPath(tr, tc, river) == [tr |-> tr, tc |-> tc, river |-> river]

\* jump_targets_r/c and river_coords as the code fills them, in order.
JumpPaths(piece_type, r, c) ==
  LET vertical ==
        IF rules_is_river(3, c) /\ piece_type # PIECE_TYPE_RAT
        THEN IF r = 2
             THEN << JumpPath(6, c, << <<3, c>>, <<4, c>>, <<5, c>> >>) >>
             ELSE IF r = 6
             THEN << JumpPath(2, c, << <<5, c>>, <<4, c>>, <<3, c>> >>) >>
             ELSE << >>
        ELSE << >>
      left ==
        IF /\ piece_type = PIECE_TYPE_LION
           /\ rules_is_river(r, 1) /\ rules_is_river(r, 2)
        THEN IF c = 0
             THEN << JumpPath(r, 3, << <<r, 1>>, <<r, 2>> >>) >>
             ELSE IF c = 3
             THEN << JumpPath(r, 0, << <<r, 2>>, <<r, 1>> >>) >>
             ELSE << >>
        ELSE << >>
      right ==
        IF /\ piece_type = PIECE_TYPE_LION
           /\ rules_is_river(r, 4) /\ rules_is_river(r, 5)
        THEN IF c = 3
             THEN << JumpPath(r, 6, << <<r, 4>>, <<r, 5>> >>) >>
             ELSE IF c = 6
             THEN << JumpPath(r, 3, << <<r, 5>>, <<r, 4>> >>) >>
             ELSE << >>
        ELSE << >>
  IN IF piece_type = PIECE_TYPE_LION \/ piece_type = PIECE_TYPE_TIGER
     THEN vertical \o left \o right
     ELSE << >>

\* The test without the look at the river cells: no piece blocks a jump.
PathBlockedByLandOnly(board, river) ==
  \E k \in 1 .. Len(river) : ~ rules_is_river(river[k][1], river[k][2])

path_blocked(board, river) ==
  \E k \in 1 .. Len(river) :
     \/ ~ rules_is_river(river[k][1], river[k][2])
     \/ board[Sq(river[k][1], river[k][2])].type # NO_PIECE

\* The body of the jump loop: TRUE iff the loop reaches the emit statement.
JumpAllowed(board, r, c, path, captures_only) ==
  /\ ~ path_blocked(board, path.river)
  /\ LET piece == board[Sq(r, c)]
         target == board[Sq(path.tr, path.tc)]
     IN /\ ~ (captures_only /\ target.type = NO_PIECE)
        /\ Terrain(path.tr, path.tc) # own_den_terrain(piece.player)
        /\ Terrain(path.tr, path.tc) # TERRAIN_WATER
        /\ ~ (target.type # NO_PIECE /\ target.player = piece.player)
        /\ (target.type # NO_PIECE /\ target.player # piece.player)
             => rules_can_capture(piece, target, r, c, path.tr, path.tc)

rules_get_valid_moves_for_piece(board, r, c, captures_only) ==
  IF board[Sq(r, c)].type = NO_PIECE THEN << >>
  ELSE
    LET piece_type == board[Sq(r, c)].type
        StepTest(t) == StepAllowed(board, r, c, t[1], t[2], captures_only)
        JumpTest(p) == JumpAllowed(board, r, c, p, captures_only)
        steps == SelectSeq(StepTargets(r, c), StepTest)
        jumps == SelectSeq(JumpPaths(piece_type, r, c), JumpTest)
    IN [i \in 1 .. Len(steps) |->
          Move(r, c, steps[i][1], steps[i][2], piece_type,
               board[Sq(steps[i][1], steps[i][2])].type)]
       \o
       [i \in 1 .. Len(jumps) |->
          Move(r, c, jumps[i].tr, jumps[i].tc, piece_type,
               board[Sq(jumps[i].tr, jumps[i].tc)].type)]

\* Capacity of the moves_array the callers pass (BOARD_ROWS * BOARD_COLS * 8).
MaxMovesEstimate == BOARD_ROWS * BOARD_COLS * 8

RECURSIVE CollectMoves(_, _, _, _, _)
CollectMoves(board, squares, captures_only, i, acc) ==
  IF i > Len(squares) THEN acc
  ELSE LET pm == rules_get_valid_moves_for_piece(
                   board, RowOf(squares[i]), ColOf(squares[i]), captures_only)
           room == MaxMovesEstimate - Len(acc)
           kept == IF Len(pm) <= room THEN pm ELSE SubSeq(pm, 1, room)
       IN CollectMoves(board, squares, captures_only, i + 1, acc \o kept)

generate_all_valid_moves(board, player, captures_only) ==
  LET Mine(s) == board[s].type # NO_PIECE /\ board[s].player = player
  IN CollectMoves(board, SelectSeq(AllSquares, Mine), captures_only, 1, << >>)

rules_get_game_status(board) ==
  LET occ == {s \in 0 .. (NumSquares - 1) : board[s].type # NO_PIECE}
      p0 == {s \in occ : board[s].player = PLAYER0}
      p1 == occ \ p0
      p0d == \E s \in p0 : Terrain(RowOf(s), ColOf(s)) = TERRAIN_PLAYER1_DEN
      p1d == \E s \in p1 : Terrain(RowOf(s), ColOf(s)) = TERRAIN_PLAYER0_DEN
  IN IF p0d THEN GAME_STATUS_PLAYER0_WINS
     ELSE IF p1d THEN GAME_STATUS_PLAYER1_WINS
     ELSE IF p1 = {} /\ p0 # {} THEN GAME_STATUS_PLAYER0_WINS
     ELSE IF p0 = {} /\ p1 # {} THEN GAME_STATUS_PLAYER1_WINS
     ELSE IF p0 = {} /\ p1 = {} THEN GAME_STATUS_DRAW
     ELSE GAME_STATUS_ONGOING

(***************************************************************************)
(* Zobrist hashing.  A 64-bit word is handled as 8 bytes, least            *)
(* significant first.                                                      *)
(***************************************************************************)
\* 6364136223846793005, 1442695040888963407 and 1234567890123456789.
LcgMultiplier == <<45, 127, 149, 76, 45, 244, 81, 88>>

LcgIncrement == <<79, 129, 103, 247, 126, 123, 5, 20>>

LcgSeed == <<21, 129, 233, 125, 244, 16, 34, 17>>

RECURSIVE LcgColumn(_, _, _)
LcgColumn(s, k, i) ==
  IF i > k THEN 0
  ELSE s[i] * LcgMultiplier[k + 1 - i] + LcgColumn(s, k, i + 1)

RECURSIVE LcgLimbs(_, _, _, _)
LcgLimbs(s, k, carry, acc) ==
  IF k > 8 THEN acc
  ELSE LET col == carry + LcgIncrement[k] + LcgColumn(s, k, 1)
       IN LcgLimbs(s, k + 1, col \div 256, Append(acc, col % 256))

\* lcg_rand_state * multiplier + increment, modulo 2^64.
random_int64(s) == LcgLimbs(s, 1, 0, << >>)

\* The values random_int64 returns in the nested loops of initialize_zobrist
\* whose trip counts are dims, outermost first, from lcg_rand_state s; the
\* state after a draw is the value drawn.
RECURSIVE LcgLoops(_, _), LcgLoop(_, _, _, _)
LcgLoops(dims, s) ==
  IF dims = << >> THEN << random_int64(s) >>
  ELSE LcgLoop(dims[1], Tail(dims), s, << >>)

LcgLoop(n, inner, s, acc) ==
  IF n = 0 THEN acc
  ELSE LET blk == LcgLoops(inner, s)
       IN LcgLoop(n - 1, inner, blk[Len(blk)], acc \o blk)

\* The successive values initialize_zobrist draws: one per (pt, p, r, c) in
\* loop order, then zobrist_player1_to_move.
ZobristDraws ==
  LET t == LcgLoops(<<NUM_PIECE_TYPES, 2, BOARD_ROWS, BOARD_COLS>>, LcgSeed)
  IN Append(t, random_int64(t[Len(t)]))

zobrist_table(pt, p, r, c) ==
  ZobristDraws[((pt * 2 + p) * BOARD_ROWS + r) * BOARD_COLS + c + 1]

zobrist_player1_to_move == ZobristDraws[NUM_PIECE_TYPES * 2 * NumSquares + 1]

\* x ^ y for 4-bit x and y, at [x + 1][y + 1].
NibbleXor ==
  << <<0, 1, 2, 3, 4, 5, 6, 7, 8, 9, 10, 11, 12, 13, 14, 15>>,
     <<1, 0, 3, 2, 5, 4, 7, 6, 9, 8, 11, 10, 13, 12, 15, 14>>,
     <<2, 3, 0, 1, 6, 7, 4, 5, 10, 11, 8, 9, 14, 15, 12, 13>>,
     <<3, 2, 1, 0, 7, 6, 5, 4, 11, 10, 9, 8, 15, 14, 13, 12>>,
     <<4, 5, 6, 7, 0, 1, 2, 3, 12, 13, 14, 15, 8, 9, 10, 11>>,
     <<5, 4, 7, 6, 1, 0, 3, 2, 13, 12, 15, 14, 9, 8, 11, 10>>,
     <<6, 7, 4, 5, 2, 3, 0, 1, 14, 15, 12, 13, 10, 11, 8, 9>>,
     <<7, 6, 5, 4, 3, 2, 1, 0, 15, 14, 13, 12, 11, 10, 9, 8>>,
     <<8, 9, 10, 11, 12, 13, 14, 15, 0, 1, 2, 3, 4, 5, 6, 7>>,
     <<9, 8, 11, 10, 13, 12, 15, 14, 1, 0, 3, 2, 5, 4, 7, 6>>,
     <<10, 11, 8, 9, 14, 15, 12, 13, 2, 3, 0, 1, 6, 7, 4, 5>>,
     <<11, 10, 9, 8, 15, 14, 13, 12, 3, 2, 1, 0, 7, 6, 5, 4>>,
     <<12, 13, 14, 15, 8, 9, 10, 11, 4, 5, 6, 7, 0, 1, 2, 3>>,
     <<13, 12, 15, 14, 9, 8, 11, 10, 5, 4, 7, 6, 1, 0, 3, 2>>,
     <<14, 15, 12, 13, 10, 11, 8, 9, 6, 7, 4, 5, 2, 3, 0, 1>>,
     <<15, 14, 13, 12, 11, 10, 9, 8, 7, 6, 5, 4, 3, 2, 1, 0>> >>

ByteXor(x, y) ==
  16 * NibbleXor[(x \div 16) + 1][(y \div 16) + 1]
    + NibbleXor[(x % 16) + 1][(y % 16) + 1]

\* Bitwise exclusive or of two 64-bit words.
Xor(a, b) ==
  << ByteXor(a[1], b[1]), ByteXor(a[2], b[2]), ByteXor(a[3], b[3]),
     ByteXor(a[4], b[4]), ByteXor(a[5], b[5]), ByteXor(a[6], b[6]),
     ByteXor(a[7], b[7]), ByteXor(a[8], b[8]) >>

\* The 64-bit word 0.
ZeroKey == <<0, 0, 0, 0, 0, 0, 0, 0>>

RECURSIVE XorPieces(_, _, _, _)
XorPieces(board, squares, i, key) ==
  IF i > Len(squares) THEN key
  ELSE LET s == squares[i]
       IN XorPieces(board, squares, i + 1,
            Xor(key, zobrist_table(board[s].type, board[s].player,
                                   RowOf(s), ColOf(s))))

compute_zobrist_key_full(board, player_to_move) ==
  LET Occupied(s) == board[s].type # NO_PIECE
      key == XorPieces(board, SelectSeq(AllSquares, Occupied), 1, ZeroKey)
  IN IF player_to_move = PLAYER1 THEN Xor(key, zobrist_player1_to_move) ELSE key

\* The move made without the capture update: the captured piece is not
\* XORed out of the hash.
SimulateKeepCapturedKey(board, move, moved_type, player, hash) ==
  LET h1 == Xor(hash, zobrist_table(moved_type, player, move.from_row, move.from_col))
      h3 == Xor(h1, zobrist_table(moved_type, player, move.to_row, move.to_col))
  IN [board |-> [board EXCEPT ![Sq(move.to_row, move.to_col)] = Piece(moved_type, player),
                              ![Sq(move.from_row, move.from_col)] = Empty],
      hash |-> Xor(h3, zobrist_player1_to_move)]

\* next_board and *current_hash_ptr after the call.
simulate_move_and_update_hash(board, move, moved_type, player, hash) ==
  LET h1 == Xor(hash, zobrist_table(moved_type, player, move.from_row, move.from_col))
      h2 == IF move.captured_piece_type # NO_PIECE
            THEN Xor(h1, zobrist_table(move.captured_piece_type, get_opponent(player),
                                       move.to_row, move.to_col))
            ELSE h1
      h3 == Xor(h2, zobrist_table(moved_type, player, move.to_row, move.to_col))
  IN [board |-> [board EXCEPT ![Sq(move.to_row, move.to_col)] = Piece(moved_type, player),
                              ![Sq(move.from_row, move.from_col)] = Empty],
      hash |-> Xor(h3, zobrist_player1_to_move)]

(***************************************************************************)
(* Evaluation.  The source sums float and double terms and truncates the   *)
(* difference to int.  Every term is, before rounding, a multiple of       *)
(* 1/3000, so the sums are kept exactly in units of 1/3000.  The rounding  *)
(* of the float products (0.2f, 0.3f, -0.7f and value/150.0f are inexact)  *)
(* moves the computed sum by far less than 1/3000, so the truncation is    *)
(* that of the exact sum unless the exact sum is a whole number other than *)
(* zero: there the computed sum lies just above or just below it, on the   *)
(* side the build's float arithmetic puts it, and the truncation gives the *)
(* whole number or its neighbour toward zero.                              *)
(***************************************************************************)
\* Units per point: the least common denominator of the weights' quotients.
EvalScale == 3000

is_key_sq_p0(r, c) ==
  \/ (r = 4 /\ (c = 2 \/ c = 3 \/ c = 4))
  \/ (r = 1 /\ (c = 2 \/ c = 4))
  \/ (r = 2 /\ c = 3)

is_key_sq_p1(r, c) ==
  \/ (r = 4 /\ (c = 2 \/ c = 3 \/ c = 4))
  \/ (r = 7 /\ (c = 2 \/ c = 4))
  \/ (r = 6 /\ c = 3)

\* (int)x for x = n / EvalScale.
TruncateToInt(n) == IF n >= 0 THEN n \div EvalScale ELSE -((-n) \div EvalScale)

\* The values (int)x can take for a computed x within rounding of n / EvalScale.
TruncatedSums(n) ==
  IF n # 0 /\ n % EvalScale = 0
  THEN {TruncateToInt(n), TruncateToInt(n) - (IF n > 0 THEN 1 ELSE -1)}
  ELSE {TruncateToInt(n)}

\* What the piece on square s adds to its owner's score, in 1/3000 points.
PieceTerms(board, s) ==
  LET pce == board[s]
      r == RowOf(s)
      c == ColOf(s)
      plr == pce.player
      value == PIECE_INFO[pce.type + 1].value
      material == EvalScale * value
      adv == IF plr = PLAYER1 THEN r ELSE BOARD_ROWS - 1 - r
      advancement == 4 * adv * value
      defense ==
        IF pce.type = PIECE_TYPE_RAT THEN 0
        ELSE (IF plr = PLAYER1 /\ r < 3 THEN (r - 3) * (-21) * value ELSE 0)
           + (IF plr = PLAYER0 /\ r > BOARD_ROWS - 1 - 3
              THEN ((BOARD_ROWS - 1 - r) - 3) * (-21) * value ELSE 0)
      trapped ==
        IF rules_get_effective_rank(pce, r, c) = 0 /\ Terrain(r, c) = TERRAIN_TRAP
        THEN (-90) * value ELSE 0
      key ==
        IF (plr = PLAYER0 /\ is_key_sq_p0(r, c)) \/ (plr = PLAYER1 /\ is_key_sq_p1(r, c))
        THEN 9 * value ELSE 0
      den_r == IF plr = PLAYER1 THEN PLAYER0_DEN_ROW ELSE PLAYER1_DEN_ROW
      den_c == IF plr = PLAYER1 THEN PLAYER0_DEN_COL ELSE PLAYER1_DEN_COL
      d_den == Abs(r - den_r) + Abs(c - den_c)
      near == IF 15 - d_den > 0 THEN 15 - d_den ELSE 0
      own_half == \/ (plr = PLAYER1 /\ r < BOARD_ROWS \div 2)
                  \/ (plr = PLAYER0 /\ r > BOARD_ROWS \div 2)
      den == near * (IF own_half THEN 18 ELSE 180) * value
      Threat(t) ==
        IF /\ is_valid_move_coords(t[1], t[2])
           /\ board[Sq(t[1], t[2])].type # NO_PIECE
           /\ board[Sq(t[1], t[2])].player # plr
           /\ rules_can_capture(pce, board[Sq(t[1], t[2])], r, c, t[1], t[2])
        THEN 45 * PIECE_INFO[board[Sq(t[1], t[2])].type + 1].value
        ELSE 0
      n == StepTargets(r, c)
  IN material + advancement + defense + trapped + key + den
       + Threat(n[1]) + Threat(n[2]) + Threat(n[3]) + Threat(n[4])

RECURSIVE SumTerms(_, _, _, _)
SumTerms(board, squares, i, acc) ==
  IF i > Len(squares) THEN acc
  ELSE SumTerms(board, squares, i + 1, acc + PieceTerms(board, squares[i]))

\* The values the function can return for board.
evaluate_board_internal(board) ==
  LET status == rules_get_game_status(board)
      Ai(s) == board[s].type # NO_PIECE /\ board[s].player = PLAYER1
      Pl(s) == board[s].type # NO_PIECE /\ board[s].player # PLAYER1
      ai_s == SumTerms(board, SelectSeq(AllSquares, Ai), 1, 0)
      pl_s == SumTerms(board, SelectSeq(AllSquares, Pl), 1, 0)
  IN IF status = GAME_STATUS_PLAYER1_WINS THEN {WIN_SCORE}
     ELSE IF status = GAME_STATUS_PLAYER0_WINS THEN {LOSE_SCORE}
     ELSE IF status = GAME_STATUS_DRAW THEN {DRAW_SCORE}
     ELSE IF ~ (\E s \in 1 .. NumSquares : Ai(AllSquares[s]))
               /\ (\E s \in 1 .. NumSquares : Pl(AllSquares[s])) THEN {LOSE_SCORE}
     ELSE IF ~ (\E s \in 1 .. NumSquares : Pl(AllSquares[s]))
               /\ (\E s \in 1 .. NumSquares : Ai(AllSquares[s])) THEN {WIN_SCORE}
     ELSE TruncatedSums(ai_s - pl_s)

(***************************************************************************)
(* Killer moves, history and move ordering                                 *)
(***************************************************************************)
get_history_index(piece_type, to_r, to_c) ==
  piece_type * (BOARD_ROWS * BOARD_COLS) + to_r * BOARD_COLS + to_c

\* history_heuristic[idx]; the table is kept as the map of its non-zero part.
HistoryAt(history, idx) == IF idx \in DOMAIN history THEN history[idx] ELSE 0

SameSquares(m, k) ==
  /\ m.from_row = k.from_row /\ m.from_col = k.from_col
  /\ m.to_row = k.to_row /\ m.to_col = k.to_col

\* A killer slot: killer_moves_valid[ply][n] and killer_moves[ply][n].
NoKiller == [valid |-> FALSE, move |-> Move(0, 0, 0, 0, 0, 0)]

NoKillers == [ply \in 0 .. (MAX_PLY_FOR_KILLERS - 1) |-> <<NoKiller, NoKiller>>]

record_killer_move(killers, ply, move) ==
  IF ply < 0 \/ ply >= MAX_PLY_FOR_KILLERS THEN killers
  ELSE IF ~ killers[ply][1].valid \/ ~ SameSquares(killers[ply][1].move, move)
       THEN [killers EXCEPT ![ply] = << [valid |-> TRUE, move |-> move], killers[ply][1] >>]
       ELSE killers

\* The order_score order_moves assigns to one move.
OrderScore(m, tt_move, tt_move_valid, ply, killers, history) ==
  IF tt_move_valid /\ SameSquares(m, tt_move) THEN 200000
  ELSE IF m.captured_piece_type # NO_PIECE
  THEN 100000 + (PIECE_INFO[m.captured_piece_type + 1].value * 100)
         - PIECE_INFO[m.piece_type + 1].value
  ELSE IF ply >= 0 /\ ply < MAX_PLY_FOR_KILLERS
  THEN IF killers[ply][1].valid /\ SameSquares(m, killers[ply][1].move) THEN 90000
       ELSE IF killers[ply][2].valid /\ SameSquares(m, killers[ply][2].move) THEN 80000
       ELSE HistoryAt(history, get_history_index(m.piece_type, m.to_row, m.to_col))
  ELSE HistoryAt(history, get_history_index(m.piece_type, m.to_row, m.to_col))

RECURSIVE ScoreMoves(_, _, _, _, _, _, _)
ScoreMoves(moves, i, tt_move, tt_move_valid, ply, killers, history) ==
  IF i > Len(moves) THEN << >>
  ELSE << [moves[i] EXCEPT !.order_score =
             OrderScore(moves[i], tt_move, tt_move_valid, ply, killers, history)] >>
       \o ScoreMoves(moves, i + 1, tt_move, tt_move_valid, ply, killers, history)

\* The inner loop of the bubble sort: j runs over 1 .. last.
RECURSIVE BubblePass(_, _, _)
BubblePass(moves, j, last) ==
  IF j > last THEN moves
  ELSE IF moves[j].order_score < moves[j + 1].order_score
       THEN BubblePass([moves EXCEPT ![j] = moves[j + 1], ![j + 1] = moves[j]], j + 1, last)
       ELSE BubblePass(moves, j + 1, last)

\* The outer loop: pass i (from 0) bubbles within the first num_moves - i.
RECURSIVE BubbleSort(_, _)
BubbleSort(moves, i) ==
  IF i >= Len(moves) - 1 THEN moves
  ELSE BubbleSort(BubblePass(moves, 1, Len(moves) - i - 1), i + 1)

order_moves(moves, tt_move, tt_move_valid, ply, killers, history) ==
  BubbleSort(ScoreMoves(moves, 1, tt_move, tt_move_valid, ply, killers, history), 0)

(***************************************************************************)
(* Search tables and call frames                                           *)
(***************************************************************************)
INT_MAX == 2147483647

INT_MIN == -2147483647 - 1

\* The value alpha_beta and quiescence_search return when the time is up.
TIMEOUT_SENTINEL == 888888

NMP_REDUCTION == 3

LMR_REDUCTION_BASE == 1

LMR_MOVES_TRIED_THRESHOLD == 4

\* Slots of path_hashes_main: MAX_PLY_FOR_KILLERS + 5.
PathSlots == MAX_PLY_FOR_KILLERS + 5

\* Slots of result_buffer.
ResultSlots == 10

\* (hash >= 0 ? hash : -hash) % TRANSPOSITION_TABLE_SIZE, from the low 20 bits.
TTIndex(hash) ==
  LET low == hash[1] + 256 * hash[2] + 65536 * (hash[3] % 16)
  IN IF hash[8] >= 128 THEN (1048576 - low) % 1048576 ELSE low

\* A table entry as initializeAiEngine leaves it.
ClearedEntry ==
  [hash_key |-> ZeroKey, score |-> 0, depth |-> -1, flag |-> HASH_EXACT,
   best_move |-> Move(0, 0, 0, 0, 0, 0), best_move_valid |-> FALSE]

\* transposition_table[idx]; the table is kept as the map of its written slots.
TTAt(table, idx) == IF idx \in DOMAIN table THEN table[idx] ELSE ClearedEntry

TTPut(table, idx, entry) ==
  [k \in (DOMAIN table) \cup {idx} |-> IF k = idx THEN entry ELSE table[k]]

HistoryAdd(history, idx, amount) ==
  [k \in (DOMAIN history) \cup {idx} |->
     IF k = idx THEN HistoryAt(history, idx) + amount ELSE history[k]]

\* A slot of path_hashes_main that nothing has written yet.
Uninit == << >>

\* A register holding no value, and one holding v.
None == << >>

Some(v) == << v >>

\* The move a frame holds before any move of the node has been chosen.
UnsetMove == Move(-1, 0, 0, 0, 0, NO_PIECE)

\* The activation record of one alpha_beta or quiescence_search call.  For a
\* quiescence call depth holds q_depth.  loop_beta is no variable of the code:
\* it keeps the beta the move loop of the call started with, which the loop
\* of a minimising call overwrites.
Frame(kind, board, hash, depth, alpha, beta, is_max, ply, count, allow_null) ==
  [kind |-> kind, pc |-> "entry", board |-> board, hash |-> hash, depth |-> depth,
   alpha |-> alpha, beta |-> beta, is_maximizing_player |-> is_max, ply |-> ply,
   path_hash_count |-> count, allow_null_move |-> allow_null,
   moves |-> << >>, i |-> 0, best_score |-> 0, best_move_for_node |-> UnsetMove,
   best_move_for_node_valid |-> FALSE, original_alpha |-> alpha, loop_beta |-> beta,
   moves_searched_full_depth |-> 0, current_search_depth |-> 0]

(***************************************************************************)
(* State.  The w-variables hold a line of play (a board, the side to move  *)
(* and the incrementally maintained hash) on which the rules, the move     *)
(* generator and the hasher are exercised.  The other variables are one    *)
(* call of findBestMoveWasm: its arguments, its locals (drv), the stack of *)
(* alpha_beta and quiescence_search calls below it, the value the last     *)
(* call returned (ret), whether the clock has been seen past the limit     *)
(* (expired), the engine's tables and the caller's result buffer.  iterLog *)
(* records, per iteration started, the root scores it obtained and whether *)
(* it ran to its end within the time limit.  The caller may repeat a call  *)
(* that returned within the time limit: calls counts the calls made and    *)
(* earlier holds what the call before this one wrote.  rounded records,    *)
(* for each board evaluated whose exact sum is a whole number, the value   *)
(* the evaluation returned: the float arithmetic is the same at every      *)
(* evaluation of a board.  ordering holds a call of order_moves made on    *)
(* its own.                                                                *)
(***************************************************************************)
VARIABLES wBoard, wSide, wHash, wSteps, wCaptures, wNulls,
          inBoard, inDepth, pc, drv, stack, ret, expired, ai_run_counter,
          transposition_table, killer_moves, history_heuristic, path_hashes,
          result_buffer, iterLog, calls, earlier, rounded, ordering

wvars == <<wBoard, wSide, wHash, wSteps, wCaptures, wNulls>>

tables == <<transposition_table, killer_moves, history_heuristic>>

svars == <<inBoard, inDepth, pc, drv, stack, ret, expired, ai_run_counter,
           transposition_table, killer_moves, history_heuristic, path_hashes,
           result_buffer, iterLog, calls, earlier, rounded, ordering>>

vars == <<wBoard, wSide, wHash, wSteps, wCaptures, wNulls,
          inBoard, inDepth, pc, drv, stack, ret, expired, ai_run_counter,
          transposition_table, killer_moves, history_heuristic, path_hashes,
          result_buffer, iterLog, calls, earlier, rounded, ordering>>

\* The locals of findBestMoveWasm before the call has set any of them.
DrvIdle ==
  [root_moves |-> << >>, current_depth_iter |-> 0, i |-> 0,
   current_iter_best_score |-> INT_MIN, current_iter_best_move |-> UnsetMove,
   best_move_overall |-> UnsetMove, best_move_overall_found |-> FALSE,
   best_score_overall |-> INT_MIN, depth_achieved |-> 0, root_hash |-> ZeroKey]

\* The engine before a call, with its tables as initializeAiEngine leaves them.
EngineIdle ==
  /\ pc = "start"
  /\ drv = DrvIdle
  /\ stack = << >>
  /\ ret = None
  /\ expired = FALSE
  /\ ai_run_counter = 0
  /\ transposition_table = << >>
  /\ killer_moves = NoKillers
  /\ history_heuristic = << >>
  /\ path_hashes = [k \in 0 .. (PathSlots - 1) |-> Uninit]
  /\ result_buffer = [k \in 0 .. (ResultSlots - 1) |-> None]
  /\ iterLog = << >>

\* No call has been made before this one and no board has been evaluated.
FirstCall ==
  /\ calls = 1
  /\ earlier = << >>
  /\ rounded = { }

\* Longest line of play explored from a starting position.
MaxWalk == 3

\* Starting positions: a Player1 piece of type a and a Player0 piece of type b
\* beside the river, the traps and the dens, with the pieces that block them.
WalkLayouts(a, b) ==
  { { <<a, PLAYER1, 2, 1>>, <<b, PLAYER0, 3, 0>>,
      <<PIECE_TYPE_RAT, PLAYER0, 5, 1>>, <<PIECE_TYPE_CAT, PLAYER1, 2, 0>> },
    { <<a, PLAYER1, 2, 4>>, <<b, PLAYER0, 6, 4>> },
    { <<a, PLAYER1, 4, 3>>, <<b, PLAYER0, 4, 0>>, <<PIECE_TYPE_RAT, PLAYER1, 4, 5>> },
    { <<a, PLAYER1, 1, 2>>, <<b, PLAYER0, 0, 1>> },
    { <<a, PLAYER1, 7, 2>>, <<b, PLAYER0, 8, 1>> },
    { <<a, PLAYER1, 5, 0>>, <<b, PLAYER0, 6, 1>> } }

WalkBoards ==
  UNION { { BoardOf(l) : l \in WalkLayouts(a, b) } : a \in PieceTypes, b \in PieceTypes }

WalkInit ==
  /\ wBoard \in WalkBoards
  /\ wSide = PLAYER1
  /\ wHash = compute_zobrist_key_full(wBoard, PLAYER1)
  /\ wSteps = 0
  /\ wCaptures = 0
  /\ wNulls = 0
  /\ inBoard = EmptyBoard
  /\ inDepth = 0
  /\ EngineIdle
  /\ FirstCall
  /\ ordering = None

\* The side to move plays one generated move; the hash is updated incrementally.
WalkMove ==
  /\ wSteps < MaxWalk
  /\ \E captures_only \in BOOLEAN :
       LET moves == generate_all_valid_moves(wBoard, wSide, captures_only)
       IN \E i \in 1 .. Len(moves) :
            LET nxt == simulate_move_and_update_hash(
                         wBoard, moves[i], moves[i].piece_type, wSide, wHash)
            IN /\ wBoard' = nxt.board
               /\ wHash' = nxt.hash
               /\ wCaptures' = wCaptures
                    + (IF moves[i].captured_piece_type # NO_PIECE THEN 1 ELSE 0)
  /\ wSide' = get_opponent(wSide)
  /\ wSteps' = wSteps + 1
  /\ UNCHANGED wNulls
  /\ UNCHANGED svars

\* A null move, as alpha_beta makes it: only the side-to-move key is flipped.
WalkNull ==
  /\ wSteps < MaxWalk
  /\ wHash' = Xor(wHash, zobrist_player1_to_move)
  /\ wSide' = get_opponent(wSide)
  /\ wSteps' = wSteps + 1
  /\ wNulls' = wNulls + 1
  /\ UNCHANGED <<wBoard, wCaptures>>
  /\ UNCHANGED svars

WalkNext == WalkMove \/ WalkNull

SpecWalk == WalkInit /\ [][WalkNext]_vars

(***************************************************************************)
(* alpha_beta.  Each action is the run of one call from where it stands to *)
(* its next call or to its return.                                         *)
(***************************************************************************)
Top == stack[Len(stack)]

Callers == SubSeq(stack, 1, Len(stack) - 1)

\* The call on top of the stack returns v to its caller.
Return(v) ==
  /\ stack' = Callers
  /\ ret' = Some(v)

\* The call on top of the stack, now f, calls child.
Call(f, child) ==
  /\ stack' = Append(Callers, f) \o << child >>
  /\ ret' = None

\* What emscripten_get_now() - start_search_time_ms > current_time_limit_ms may
\* yield: once the limit has been passed it stays passed.
ClockReads == IF expired THEN {TRUE} ELSE BOOLEAN

\* alpha_beta and quiescence_search touch no local of findBestMoveWasm.
DriverWaits ==
  UNCHANGED <<wvars, inBoard, inDepth, pc, drv, result_buffer, iterLog, calls, earlier,
              rounded, ordering>>

AtEntry(kind) ==
  /\ stack # << >>
  /\ Top.kind = kind
  /\ Top.pc = "entry"
  /\ ret = None

\* The outcomes of the repetition test of call f: TRUE when it returns the
\* draw score.  The count runs over path_hashes[0 .. path_hash_count], whose
\* last slot the call has not written yet: it holds what an earlier call left
\* there, or nothing, and then either outcome of the comparison can happen.
\* A slot past the end of the array is memory of another object, which may
\* hold anything.
RepetitionDraws(f, path) ==
  LET m == Cardinality({k \in (0 .. (f.path_hash_count - 1)) \cap DOMAIN path :
                          path[k] = f.hash})
      slot == IF f.path_hash_count \in DOMAIN path THEN path[f.path_hash_count] ELSE Uninit
  IN IF f.path_hash_count > 0 /\ m > 0
     THEN IF slot = Uninit
          THEN {m >= 2 /\ f.ply > 0, m + 1 >= 2 /\ f.ply > 0}
          ELSE {m + (IF slot = f.hash THEN 1 ELSE 0) >= 2 /\ f.ply > 0}
     ELSE {FALSE}

\* The probe without the depth test: it takes the entry of a shallower search.
ProbeAnyDepth(f, table) ==
  LET e == TTAt(table, TTIndex(f.hash))
      hit == e.hash_key = f.hash /\ f.ply > 0
      a == IF hit /\ e.flag = HASH_LOWERBOUND /\ e.score > f.alpha THEN e.score ELSE f.alpha
      b == IF hit /\ e.flag = HASH_UPPERBOUND /\ e.score < f.beta THEN e.score ELSE f.beta
  IN [returns |-> hit /\ (e.flag = HASH_EXACT \/ a >= b), score |-> e.score,
      alpha |-> a, beta |-> b]

\* The transposition-table probe of call f: whether it returns, and the window
\* it leaves.
Probe(f, table) ==
  LET e == TTAt(table, TTIndex(f.hash))
      hit == e.hash_key = f.hash /\ e.depth >= f.depth /\ f.ply > 0
      a == IF hit /\ e.flag = HASH_LOWERBOUND /\ e.score > f.alpha THEN e.score ELSE f.alpha
      b == IF hit /\ e.flag = HASH_UPPERBOUND /\ e.score < f.beta THEN e.score ELSE f.beta
  IN [returns |-> hit /\ (e.flag = HASH_EXACT \/ a >= b), score |-> e.score,
      alpha |-> a, beta |-> b]

Mover(f) == IF f.is_maximizing_player THEN PLAYER1 ELSE PLAYER0

\* The common start of every alpha_beta call that gets past the clock.
EnterNode(late) ==
  /\ AtEntry("ab")
  /\ DriverWaits
  /\ ai_run_counter' = ai_run_counter + 1
  /\ late \in ClockReads
  /\ expired' = late

ABTimeout ==
  /\ EnterNode(TRUE)
  /\ Return(TIMEOUT_SENTINEL)
  /\ UNCHANGED <<tables, path_hashes>>

ABRepetition ==
  /\ EnterNode(FALSE)
  /\ TRUE \in RepetitionDraws(Top, path_hashes)
  /\ Return(DRAW_SCORE)
  /\ UNCHANGED <<tables, path_hashes>>

\* Past the repetition test: the call adds its hash to the path.  A write
\* past the end of the array leaves the array as it is; the memory it changes
\* is not part of this model.
PastRepetition ==
  /\ EnterNode(FALSE)
  /\ FALSE \in RepetitionDraws(Top, path_hashes)
  /\ path_hashes' = IF Top.path_hash_count \in DOMAIN path_hashes
                    THEN [path_hashes EXCEPT ![Top.path_hash_count] = Top.hash]
                    ELSE path_hashes

ABTTReturn ==
  /\ PastRepetition
  /\ Probe(Top, transposition_table).returns
  /\ Return(Probe(Top, transposition_table).score)
  /\ UNCHANGED tables

PastProbe ==
  /\ PastRepetition
  /\ ~ Probe(Top, transposition_table).returns

\* The call with the window the probe left.
Probed == [Top EXCEPT !.alpha = Probe(Top, transposition_table).alpha,
                      !.beta = Probe(Top, transposition_table).beta]

ABTerminal ==
  /\ PastProbe
  /\ rules_get_game_status(Top.board) # GAME_STATUS_ONGOING
  /\ Return(CASE rules_get_game_status(Top.board) = GAME_STATUS_PLAYER1_WINS -> WIN_SCORE - Top.ply
              [] rules_get_game_status(Top.board) = GAME_STATUS_PLAYER0_WINS -> LOSE_SCORE + Top.ply
              [] OTHER -> DRAW_SCORE)
  /\ UNCHANGED tables

PastTerminal ==
  /\ PastProbe
  /\ rules_get_game_status(Top.board) = GAME_STATUS_ONGOING

\* return quiescence_search(...): the quiescence call takes the place of this one.
ABQuiesce ==
  /\ PastTerminal
  /\ Top.depth <= 0
  /\ stack' = Append(Callers,
                     Frame("q", Top.board, Top.hash, 0, Probed.alpha, Probed.beta,
                           Top.is_maximizing_player, Top.ply, Top.path_hash_count, FALSE))
  /\ ret' = None
  /\ UNCHANGED tables

TriesNullMove(f) ==
  f.allow_null_move /\ f.depth >= NMP_REDUCTION + 1 /\ f.ply # 0

NullMoveChild(f) ==
  Frame("ab", f.board, Xor(f.hash, zobrist_player1_to_move), f.depth - 1 - NMP_REDUCTION,
        -f.beta, -f.beta + 1, ~ f.is_maximizing_player, f.ply + 1,
        f.path_hash_count + 1, FALSE)

ABNullMove ==
  /\ PastTerminal
  /\ Top.depth > 0
  /\ TriesNullMove(Top)
  /\ Call([Probed EXCEPT !.pc = "null"], NullMoveChild(Probed))
  /\ UNCHANGED tables

\* The null-move search has returned to the call on top of the stack.
AfterNull == stack # << >> /\ Top.kind = "ab" /\ Top.pc = "null" /\ ret # None

\* The test without the sign: it never recognises a timed-out null-move search.
NullTimedOutUnsigned(null_score) == null_score = TIMEOUT_SENTINEL

\* The test made on the negated score of the null-move search.
NullTimedOut(null_score) == null_score = -TIMEOUT_SENTINEL

ABNullTimeout ==
  /\ AfterNull
  /\ NullTimedOut(-ret[1])
  /\ Return(TIMEOUT_SENTINEL)
  /\ DriverWaits
  /\ UNCHANGED <<tables, path_hashes, expired, ai_run_counter>>

ABNullPrune ==
  /\ AfterNull
  /\ ~ NullTimedOut(-ret[1])
  /\ -ret[1] >= Top.beta
  /\ Return(Top.beta)
  /\ DriverWaits
  /\ UNCHANGED <<tables, path_hashes, expired, ai_run_counter>>

\* The call reaches its move generation: straight from its entry when it
\* tries no null move, or after a null-move search that did not prune.
Generates ==
  IF AfterNull
  THEN /\ ~ NullTimedOut(-ret[1])
       /\ -ret[1] < Top.beta
       /\ DriverWaits
       /\ UNCHANGED <<path_hashes, expired, ai_run_counter>>
  ELSE /\ PastTerminal
       /\ Top.depth > 0
       /\ ~ TriesNullMove(Top)

Generating == IF AfterNull THEN Top ELSE Probed

ABNoMoves ==
  /\ Generates
  /\ generate_all_valid_moves(Generating.board, Mover(Generating), FALSE) = << >>
  /\ Return(IF Generating.is_maximizing_player
            THEN LOSE_SCORE + Generating.ply ELSE WIN_SCORE - Generating.ply)
  /\ UNCHANGED tables

\* The loop body up to the recursive call for moves[i] (i counts from 0).
SearchMove(f, i) ==
  LET m == f.moves[i + 1]
      nxt == simulate_move_and_update_hash(f.board, m, m.piece_type, Mover(f), f.hash)
      reduced == /\ f.depth >= 3
                 /\ f.moves_searched_full_depth >= LMR_MOVES_TRIED_THRESHOLD
                 /\ m.captured_piece_type = NO_PIECE
                 /\ f.ply # 0
      d == IF reduced THEN f.depth - 1 - LMR_REDUCTION_BASE ELSE f.depth - 1
  IN Call([f EXCEPT !.pc = "child", !.i = i, !.current_search_depth = d],
          Frame("ab", nxt.board, nxt.hash, d, f.alpha, f.beta,
                ~ f.is_maximizing_player, f.ply + 1, f.path_hash_count + 1, TRUE))

\* The moves of call f, ordered with the table entry as it is now.
OrderedMoves(f) ==
  LET e == TTAt(transposition_table, TTIndex(f.hash))
  IN order_moves(generate_all_valid_moves(f.board, Mover(f), FALSE), e.best_move,
                 e.hash_key = f.hash /\ e.best_move_valid, f.ply,
                 killer_moves, history_heuristic)

ABExpand ==
  /\ Generates
  /\ generate_all_valid_moves(Generating.board, Mover(Generating), FALSE) # << >>
  /\ SearchMove([Generating EXCEPT
                   !.moves = OrderedMoves(Generating),
                   !.best_score = IF Generating.is_maximizing_player THEN INT_MIN ELSE INT_MAX,
                   !.best_move_for_node = UnsetMove,
                   !.best_move_for_node_valid = FALSE,
                   !.original_alpha = Generating.alpha,
                   !.loop_beta = Generating.beta,
                   !.moves_searched_full_depth = 0], 0)
  /\ UNCHANGED tables

\* A call made from the move loop of the call on top of the stack has returned.
ChildReturned(kind) ==
  /\ stack # << >>
  /\ Top.kind = kind
  /\ Top.pc \in {"child", "research"}
  /\ ret # None

\* The reduced search of moves[i] did well enough to be repeated at full depth.
WantsResearch ==
  /\ Top.pc = "child"
  /\ Top.current_search_depth < Top.depth - 1
  /\ ret[1] > Top.alpha
  /\ ret[1] # TIMEOUT_SENTINEL

ABResearch ==
  /\ ChildReturned("ab")
  /\ WantsResearch
  /\ LET m == Top.moves[Top.i + 1]
         nxt == simulate_move_and_update_hash(Top.board, m, m.piece_type, Mover(Top), Top.hash)
     IN Call([Top EXCEPT !.pc = "research"],
             Frame("ab", nxt.board, nxt.hash, Top.depth - 1, Top.alpha, Top.beta,
                   ~ Top.is_maximizing_player, Top.ply + 1, Top.path_hash_count + 1, TRUE))
  /\ DriverWaits
  /\ UNCHANGED <<tables, path_hashes, expired, ai_run_counter>>

\* The score of moves[i] is final.
Settled(kind) == ChildReturned(kind) /\ ~ WantsResearch

ABChildTimeout ==
  /\ Settled("ab")
  /\ ret[1] = TIMEOUT_SENTINEL
  /\ Return(TIMEOUT_SENTINEL)
  /\ DriverWaits
  /\ UNCHANGED <<tables, path_hashes, expired, ai_run_counter>>

\* The call after it has taken score for moves[i] into its best score and window.
Scored(f, score) ==
  LET better == IF f.is_maximizing_player THEN score > f.best_score ELSE score < f.best_score
      best == IF better THEN score ELSE f.best_score
  IN [f EXCEPT !.best_score = best,
               !.best_move_for_node = IF better THEN f.moves[f.i + 1] ELSE @,
               !.best_move_for_node_valid = IF better THEN TRUE ELSE @,
               !.alpha = IF f.is_maximizing_player /\ best > @ THEN best ELSE @,
               !.beta = IF ~ f.is_maximizing_player /\ best < @ THEN best ELSE @,
               !.moves_searched_full_depth = @ + 1]

\* The transposition table after call f has stored its result.
Store(table, f) ==
  IF f.best_score # TIMEOUT_SENTINEL
  THEN TTPut(table, TTIndex(f.hash),
             [hash_key |-> f.hash, score |-> f.best_score, depth |-> f.depth,
              flag |-> IF f.best_score <= f.original_alpha THEN HASH_UPPERBOUND
                       ELSE IF f.best_score >= f.beta THEN HASH_LOWERBOUND
                       ELSE HASH_EXACT,
              best_move |-> IF f.best_move_for_node_valid THEN f.best_move_for_node
                            ELSE TTAt(table, TTIndex(f.hash)).best_move,
              best_move_valid |-> f.best_move_for_node_valid])
  ELSE table

ABNextMove ==
  /\ Settled("ab")
  /\ ret[1] # TIMEOUT_SENTINEL
  /\ Scored(Top, ret[1]).alpha < Scored(Top, ret[1]).beta
  /\ Top.i + 1 < Len(Top.moves)
  /\ SearchMove(Scored(Top, ret[1]), Top.i + 1)
  /\ DriverWaits
  /\ UNCHANGED <<tables, path_hashes, expired, ai_run_counter>>

\* moves[i] closed the window: a quiet move is recorded as a killer and in the
\* history table, the result is stored and returned.
ABCutoff ==
  /\ Settled("ab")
  /\ ret[1] # TIMEOUT_SENTINEL
  /\ Scored(Top, ret[1]).alpha >= Scored(Top, ret[1]).beta
  /\ LET f == Scored(Top, ret[1])
         m == Top.moves[Top.i + 1]
         quiet == m.captured_piece_type = NO_PIECE
     IN /\ killer_moves' = IF quiet THEN record_killer_move(killer_moves, f.ply, m)
                           ELSE killer_moves
        /\ history_heuristic' =
             IF quiet
             THEN HistoryAdd(history_heuristic,
                             get_history_index(m.piece_type, m.to_row, m.to_col),
                             f.depth * f.depth)
             ELSE history_heuristic
        /\ transposition_table' = Store(transposition_table, f)
        /\ Return(f.best_score)
  /\ DriverWaits
  /\ UNCHANGED <<path_hashes, expired, ai_run_counter>>

\* The last move has been searched: the result is stored and returned.
ABFinish ==
  /\ Settled("ab")
  /\ ret[1] # TIMEOUT_SENTINEL
  /\ Scored(Top, ret[1]).alpha < Scored(Top, ret[1]).beta
  /\ Top.i + 1 >= Len(Top.moves)
  /\ transposition_table' = Store(transposition_table, Scored(Top, ret[1]))
  /\ Return(Scored(Top, ret[1]).best_score)
  /\ DriverWaits
  /\ UNCHANGED <<killer_moves, history_heuristic, path_hashes, expired, ai_run_counter>>

(***************************************************************************)
(* quiescence_search                                                       *)
(***************************************************************************)
EnterQuiescence(late) ==
  /\ AtEntry("q")
  /\ UNCHANGED <<wvars, inBoard, inDepth, pc, drv, result_buffer, iterLog, calls, earlier,
                 ordering>>
  /\ ai_run_counter' = ai_run_counter + 1
  /\ late \in ClockReads
  /\ expired' = late
  /\ UNCHANGED <<tables, path_hashes>>

QTimeout ==
  /\ EnterQuiescence(TRUE)
  /\ Return(TIMEOUT_SENTINEL)
  /\ UNCHANGED rounded

\* stand_pat_score = evaluate_board_internal(current_board) for the call on
\* top of the stack: a board evaluated before gets the value it got then.
Evaluates(stand_pat_score) ==
  LET before == { p \in rounded : p[1] = Top.board }
      values == evaluate_board_internal(Top.board)
  IN /\ stand_pat_score \in (IF before = { } THEN values ELSE { p[2] : p \in before })
     /\ rounded' = IF Cardinality(values) > 1
                   THEN rounded \cup { <<Top.board, stand_pat_score>> }
                   ELSE rounded

QDepthLimit ==
  /\ EnterQuiescence(FALSE)
  /\ Top.depth >= MAX_Q_DEPTH
  /\ \E stand_pat_score \in evaluate_board_internal(Top.board) :
       /\ Evaluates(stand_pat_score)
       /\ Return(stand_pat_score)

\* The static score is outside the window on the mover's side.
StandPatCuts(f, stand_pat_score) ==
  IF f.is_maximizing_player THEN stand_pat_score >= f.beta
  ELSE stand_pat_score <= f.alpha

QStandPat ==
  /\ EnterQuiescence(FALSE)
  /\ Top.depth < MAX_Q_DEPTH
  /\ \E stand_pat_score \in evaluate_board_internal(Top.board) :
       /\ Evaluates(stand_pat_score)
       /\ StandPatCuts(Top, stand_pat_score)
  /\ Return(IF Top.is_maximizing_player THEN Top.beta ELSE Top.alpha)

\* The call after the static score has been taken into its window.
Stood(f, stand_pat_score) ==
  [f EXCEPT !.alpha = IF f.is_maximizing_player /\ stand_pat_score > @
                      THEN stand_pat_score ELSE @,
            !.beta = IF ~ f.is_maximizing_player /\ stand_pat_score < @
                     THEN stand_pat_score ELSE @]

CaptureMoves(f) ==
  order_moves(generate_all_valid_moves(f.board, Mover(f), TRUE), UnsetMove, FALSE, -1,
              killer_moves, history_heuristic)

\* The loop body up to the recursive call for capture_moves[i] (i counts from 0).
SearchCapture(f, i) ==
  LET m == f.moves[i + 1]
      nxt == simulate_move_and_update_hash(f.board, m, m.piece_type, Mover(f), f.hash)
  IN Call([f EXCEPT !.pc = "child", !.i = i],
          Frame("q", nxt.board, nxt.hash, f.depth + 1, f.alpha, f.beta,
                ~ f.is_maximizing_player, f.ply, f.path_hash_count, FALSE))

QNoCaptures ==
  /\ EnterQuiescence(FALSE)
  /\ Top.depth < MAX_Q_DEPTH
  /\ CaptureMoves(Top) = << >>
  /\ \E stand_pat_score \in evaluate_board_internal(Top.board) :
       /\ Evaluates(stand_pat_score)
       /\ ~ StandPatCuts(Top, stand_pat_score)
       /\ Return(IF Top.is_maximizing_player THEN Stood(Top, stand_pat_score).alpha
                 ELSE Stood(Top, stand_pat_score).beta)

QExpand ==
  /\ EnterQuiescence(FALSE)
  /\ Top.depth < MAX_Q_DEPTH
  /\ CaptureMoves(Top) # << >>
  /\ \E stand_pat_score \in evaluate_board_internal(Top.board) :
       /\ Evaluates(stand_pat_score)
       /\ ~ StandPatCuts(Top, stand_pat_score)
       /\ SearchCapture([Stood(Top, stand_pat_score) EXCEPT !.moves = CaptureMoves(Top)], 0)

\* A return into quiescence_search changes nothing but the stack.
QuiescenceResumes ==
  /\ ChildReturned("q")
  /\ DriverWaits
  /\ UNCHANGED <<tables, path_hashes, expired, ai_run_counter>>

QChildTimeout ==
  /\ QuiescenceResumes
  /\ ret[1] = TIMEOUT_SENTINEL
  /\ Return(TIMEOUT_SENTINEL)

\* The call after it has taken score for capture_moves[i] into its window.
Narrowed(f, score) ==
  [f EXCEPT !.alpha = IF f.is_maximizing_player /\ score > @ THEN score ELSE @,
            !.beta = IF ~ f.is_maximizing_player /\ score < @ THEN score ELSE @]

QCutoff ==
  /\ QuiescenceResumes
  /\ ret[1] # TIMEOUT_SENTINEL
  /\ Narrowed(Top, ret[1]).alpha >= Narrowed(Top, ret[1]).beta
  /\ Return(IF Top.is_maximizing_player
            THEN Narrowed(Top, ret[1]).beta ELSE Narrowed(Top, ret[1]).alpha)

QNextCapture ==
  /\ QuiescenceResumes
  /\ ret[1] # TIMEOUT_SENTINEL
  /\ Narrowed(Top, ret[1]).alpha < Narrowed(Top, ret[1]).beta
  /\ Top.i + 1 < Len(Top.moves)
  /\ SearchCapture(Narrowed(Top, ret[1]), Top.i + 1)

QFinish ==
  /\ QuiescenceResumes
  /\ ret[1] # TIMEOUT_SENTINEL
  /\ Narrowed(Top, ret[1]).alpha < Narrowed(Top, ret[1]).beta
  /\ Top.i + 1 >= Len(Top.moves)
  /\ Return(IF Top.is_maximizing_player
            THEN Narrowed(Top, ret[1]).alpha ELSE Narrowed(Top, ret[1]).beta)

(***************************************************************************)
(* findBestMoveWasm                                                        *)
(***************************************************************************)
\* Neither the arguments nor the line of play change during a call.
CallerWaits == UNCHANGED <<wvars, inBoard, inDepth, calls, earlier, rounded, ordering>>

\* The tables as initializeAiEngine leaves them.
Cleared ==
  /\ transposition_table' = << >>
  /\ killer_moves' = NoKillers
  /\ history_heuristic' = << >>

\* result_buffer as the end of the function writes it from locals d.
WrittenResult(d, counter) ==
  LET Written(m) ==
        [result_buffer EXCEPT
           ![0] = Some(1), ![1] = Some(m.from_row), ![2] = Some(m.from_col),
           ![3] = Some(m.to_row), ![4] = Some(m.to_col), ![5] = Some(m.piece_type),
           ![6] = Some(d.depth_achieved), ![7] = Some(counter),
           ![8] = Some(IF d.best_score_overall = INT_MIN THEN 0 ELSE d.best_score_overall),
           ![9] = Some(0)]
  IN IF d.best_move_overall_found THEN Written(d.best_move_overall)
     ELSE IF Len(d.root_moves) > 0 THEN Written(d.root_moves[1])
     ELSE [result_buffer EXCEPT ![0] = Some(0), ![9] = Some(2)]

\* The function reaches end_search_label with locals d, writes and returns.
EndSearch(d) ==
  /\ drv' = d
  /\ result_buffer' = WrittenResult(d, ai_run_counter)
  /\ pc' = "done"
  /\ stack' = << >>
  /\ ret' = None

\* The write of the unreachable fallback at the end of the function.
NoMoveResultFallback(buffer) == [buffer EXCEPT ![0] = Some(0), ![9] = Some(2)]

\* result_buffer as the function writes it when there is no root move.
NoMoveResult(buffer) == [buffer EXCEPT ![0] = Some(0), ![9] = Some(1)]

DrvNoMoves ==
  /\ pc = "start"
  /\ generate_all_valid_moves(inBoard, PLAYER1, FALSE) = << >>
  /\ ai_run_counter' = 0
  /\ Cleared
  /\ result_buffer' = NoMoveResult(result_buffer)
  /\ pc' = "done"
  /\ CallerWaits
  /\ UNCHANGED <<drv, stack, ret, expired, path_hashes, iterLog>>

\* No default: the move stays as its declaration leaves it.
DefaultBestMoveUnset(root_moves) == UnsetMove

\* The default result: best_move_overall = root_moves[0].
DefaultBestMove(root_moves) == root_moves[1]

DrvBegin ==
  /\ pc = "start"
  /\ generate_all_valid_moves(inBoard, PLAYER1, FALSE) # << >>
  /\ ai_run_counter' = 0
  /\ Cleared
  /\ drv' = [drv EXCEPT
               !.root_moves = generate_all_valid_moves(inBoard, PLAYER1, FALSE),
               !.best_move_overall =
                  DefaultBestMove(generate_all_valid_moves(inBoard, PLAYER1, FALSE)),
               !.best_move_overall_found = TRUE,
               !.best_score_overall = INT_MIN,
               !.depth_achieved = 0,
               !.current_depth_iter = 1]
  /\ pc' = "iter"
  /\ CallerWaits
  /\ UNCHANGED <<stack, ret, expired, path_hashes, result_buffer, iterLog>>

\* The body of the root loop up to the alpha_beta call for root_moves[i].
SearchRootMove(d, i) ==
  LET m == d.root_moves[i + 1]
      nxt == simulate_move_and_update_hash(inBoard, m, m.piece_type, PLAYER1, d.root_hash)
  IN /\ drv' = [d EXCEPT !.i = i]
     /\ path_hashes' = [path_hashes EXCEPT ![0] = nxt.hash]
     /\ stack' = << Frame("ab", nxt.board, nxt.hash, d.current_depth_iter - 1,
                          INT_MIN, INT_MAX, FALSE, 0, 0, TRUE) >>
     /\ ret' = None

\* An iteration starts: the root moves are ordered and the first is searched.
DrvIterStart ==
  /\ pc = "iter"
  /\ drv.current_depth_iter <= inDepth
  /\ FALSE \in ClockReads
  /\ expired' = FALSE
  /\ LET root_hash == compute_zobrist_key_full(inBoard, PLAYER1)
         e == TTAt(transposition_table, TTIndex(root_hash))
         ordered == order_moves(drv.root_moves, e.best_move,
                                e.hash_key = root_hash /\ e.best_move_valid, -1,
                                killer_moves, history_heuristic)
     IN /\ SearchRootMove([drv EXCEPT !.current_iter_best_score = INT_MIN,
                                      !.current_iter_best_move = drv.root_moves[1],
                                      !.root_hash = root_hash,
                                      !.root_moves = ordered], 0)
        /\ iterLog' = Append(iterLog, [depth |-> drv.current_depth_iter,
                                       root_moves |-> ordered,
                                       scores |-> << >>,
                                       in_time |-> None])
  /\ pc' = "root"
  /\ CallerWaits
  /\ UNCHANGED <<tables, ai_run_counter, result_buffer>>

\* current_depth_iter has passed max_depth.
DrvLoopEnd ==
  /\ pc = "iter"
  /\ drv.current_depth_iter > inDepth
  /\ EndSearch(drv)
  /\ CallerWaits
  /\ UNCHANGED <<tables, ai_run_counter, expired, path_hashes, iterLog>>

\* The time is up before an iteration starts.
DrvIterTimeout ==
  /\ pc = "iter"
  /\ drv.current_depth_iter <= inDepth
  /\ expired' = TRUE
  /\ EndSearch(drv)
  /\ CallerWaits
  /\ UNCHANGED <<tables, ai_run_counter, path_hashes, iterLog>>

\* alpha_beta has returned the score of root_moves[i].
RootReturned ==
  /\ pc = "root"
  /\ stack = << >>
  /\ ret # None
  /\ CallerWaits
  /\ UNCHANGED <<tables, ai_run_counter>>

\* iterLog with the score just returned added to the running iteration.
Logged(score) ==
  [iterLog EXCEPT ![Len(iterLog)].scores = Append(@, score)]

\* The locals after a completed iteration has been committed.
Committed(d) ==
  [d EXCEPT !.depth_achieved = d.current_depth_iter,
            !.best_score_overall = d.current_iter_best_score,
            !.best_move_overall = d.current_iter_best_move,
            !.best_move_overall_found = TRUE]

\* The iteration's partial result is committed before the search ends.
OnRootTimeoutCommit(d) == Committed(d)

\* The locals after a timeout sentinel from a root move: goto end_search_label
\* leaves them as they are.
OnRootTimeout(d) == d

DrvAbort ==
  /\ RootReturned
  /\ ret[1] = TIMEOUT_SENTINEL
  /\ EndSearch(OnRootTimeout(drv))
  /\ iterLog' = Logged(ret[1])
  /\ UNCHANGED <<expired, path_hashes>>

\* The locals after the score of root_moves[i] has been compared.
RootScored(d, score) ==
  IF score > d.current_iter_best_score
  THEN [d EXCEPT !.current_iter_best_score = score,
                 !.current_iter_best_move = d.root_moves[d.i + 1]]
  ELSE d

DrvNextRoot ==
  /\ RootReturned
  /\ ret[1] # TIMEOUT_SENTINEL
  /\ drv.i + 1 < Len(drv.root_moves)
  /\ SearchRootMove(RootScored(drv, ret[1]), drv.i + 1)
  /\ iterLog' = Logged(ret[1])
  /\ UNCHANGED <<pc, expired, result_buffer>>

\* The last root move has returned and the time check after the loop is made.
IterationEnds(late) ==
  /\ RootReturned
  /\ ret[1] # TIMEOUT_SENTINEL
  /\ drv.i + 1 >= Len(drv.root_moves)
  /\ late \in ClockReads
  /\ expired' = late
  /\ iterLog' = [Logged(ret[1]) EXCEPT ![Len(iterLog)].in_time = Some(~ late)]
  /\ UNCHANGED path_hashes

MateFound(d) ==
  \/ d.best_score_overall > WIN_SCORE - (MAX_PLY_FOR_KILLERS * 2)
  \/ d.best_score_overall < LOSE_SCORE + (MAX_PLY_FOR_KILLERS * 2)

DrvLate ==
  /\ IterationEnds(TRUE)
  /\ EndSearch(RootScored(drv, ret[1]))

DrvCommit ==
  /\ IterationEnds(FALSE)
  /\ ~ MateFound(Committed(RootScored(drv, ret[1])))
  /\ drv' = [Committed(RootScored(drv, ret[1])) EXCEPT !.current_depth_iter = @ + 1]
  /\ pc' = "iter"
  /\ ret' = None
  /\ UNCHANGED <<stack, result_buffer>>

DrvMateExit ==
  /\ IterationEnds(FALSE)
  /\ MateFound(Committed(RootScored(drv, ret[1])))
  /\ EndSearch(Committed(RootScored(drv, ret[1])))

\* Most calls the caller makes with one board and max_depth.
MaxCalls == 2

\* The caller, whose call returned within the time limit, makes the same call
\* again with a fresh result buffer.  The new activation of findBestMoveWasm
\* has its locals and its path array unset; the engine's globals are as the
\* call before left them.
CallAgain ==
  /\ pc = "done"
  /\ ~ expired
  /\ calls < MaxCalls
  /\ calls' = calls + 1
  /\ earlier' = result_buffer
  /\ pc' = "start"
  /\ drv' = DrvIdle
  /\ stack' = << >>
  /\ ret' = None
  /\ expired' = FALSE
  /\ path_hashes' = [k \in 0 .. (PathSlots - 1) |-> Uninit]
  /\ result_buffer' = [k \in 0 .. (ResultSlots - 1) |-> None]
  /\ iterLog' = << >>
  /\ UNCHANGED <<wvars, inBoard, inDepth, tables, ai_run_counter, rounded, ordering>>

(***************************************************************************)
(* The calls explored                                                      *)
(***************************************************************************)
\* Deepest max_depth passed to findBestMoveWasm.
MaxDepth == 6

\* Deepest max_depth passed with the boards on which the game is decided at once.
MaxShortDepth == 3

\* Two rats in opposite corners.
RatsLayout == { <<PIECE_TYPE_RAT, PLAYER1, 0, 0>>, <<PIECE_TYPE_RAT, PLAYER0, 8, 6>> }

\* A dog and a wolf far apart: lines of play come back to earlier positions.
DogWolfLayout == { <<PIECE_TYPE_DOG, PLAYER1, 2, 0>>, <<PIECE_TYPE_WOLF, PLAYER0, 5, 6>> }

\* A dog between a lion and a wolf: Player0 has many quiet moves.
AmbushLayout ==
  { <<PIECE_TYPE_DOG, PLAYER1, 2, 0>>, <<PIECE_TYPE_LION, PLAYER0, 1, 0>>,
    <<PIECE_TYPE_WOLF, PLAYER0, 3, 0>> }

\* A cat that can walk into the corner and be shut in there.
CornerLayout ==
  { <<PIECE_TYPE_CAT, PLAYER1, 1, 0>>, <<PIECE_TYPE_WOLF, PLAYER0, 0, 1>>,
    <<PIECE_TYPE_DOG, PLAYER0, 1, 1>> }

\* Five pieces around (1,1) that can capture one another in turn, and a rat
\* far away that Player1 can move instead.
ExchangeLayout ==
  { <<PIECE_TYPE_CAT, PLAYER1, 1, 1>>, <<PIECE_TYPE_DOG, PLAYER0, 0, 1>>,
    <<PIECE_TYPE_WOLF, PLAYER1, 1, 0>>, <<PIECE_TYPE_LEOPARD, PLAYER0, 2, 1>>,
    <<PIECE_TYPE_TIGER, PLAYER1, 1, 2>>, <<PIECE_TYPE_RAT, PLAYER1, 6, 6>> }

\* A Player0 rat on Player1's den, beside a Player1 elephant that can step.
LostLayout == { <<PIECE_TYPE_ELEPHANT, PLAYER1, 1, 3>>, <<PIECE_TYPE_RAT, PLAYER0, 0, 3>> }

\* A Player1 rat shut in the corner by a cat and a dog.
StuckLayout ==
  { <<PIECE_TYPE_RAT, PLAYER1, 0, 0>>, <<PIECE_TYPE_CAT, PLAYER0, 1, 0>>,
    <<PIECE_TYPE_DOG, PLAYER0, 0, 1>> }

\* A wolf two rows from Player0's den, whose leopard stands on its own trap:
\* the search reaches a position again at the first ply of a line that goes
\* deeper than any line before it.
WolfLeopardLayout ==
  { <<PIECE_TYPE_WOLF, PLAYER1, 6, 5>>, <<PIECE_TYPE_LEOPARD, PLAYER0, 8, 4>> }

\* Two cats on the same file, three rows apart: the side that steps next to
\* the other cat loses its own.
CatsLayout == { <<PIECE_TYPE_CAT, PLAYER1, 5, 6>>, <<PIECE_TYPE_CAT, PLAYER0, 8, 6>> }

\* No Player1 piece at all.
AloneLayout == { <<PIECE_TYPE_RAT, PLAYER0, 8, 6>> }

\* The arguments of the calls: a board and a max_depth.
Inputs ==
  { <<BoardOf(RatsLayout), d>> : d \in (-1) .. MaxDepth }
    \cup { <<BoardOf(l), MaxDepth>> : l \in {DogWolfLayout, AmbushLayout, CatsLayout} }
    \cup { <<BoardOf(l), MaxDepth - 1>> : l \in {WolfLeopardLayout} }
    \cup { <<BoardOf(l), d>> : l \in {CornerLayout, LostLayout}, d \in 0 .. MaxShortDepth }
    \cup { <<BoardOf(l), d>> : l \in {ExchangeLayout}, d \in 1 .. (MaxShortDepth - 2) }
    \cup { <<BoardOf(l), d>> : l \in {StuckLayout, AloneLayout}, d \in 0 .. 1 }

Init ==
  /\ \E in \in Inputs : inBoard = in[1] /\ inDepth = in[2]
  /\ EngineIdle
  /\ FirstCall
  /\ ordering = None
  /\ wBoard = EmptyBoard
  /\ wSide = PLAYER1
  /\ wHash = compute_zobrist_key_full(wBoard, wSide)
  /\ wSteps = 0
  /\ wCaptures = 0
  /\ wNulls = 0

Next ==
  \/ DrvNoMoves \/ DrvBegin \/ DrvIterStart \/ DrvLoopEnd \/ DrvIterTimeout
  \/ DrvAbort \/ DrvNextRoot \/ DrvLate \/ DrvCommit \/ DrvMateExit
  \/ ABTimeout \/ ABRepetition \/ ABTTReturn \/ ABTerminal \/ ABQuiesce
  \/ ABNullMove \/ ABNullTimeout \/ ABNullPrune \/ ABNoMoves \/ ABExpand
  \/ ABResearch \/ ABChildTimeout \/ ABNextMove \/ ABCutoff \/ ABFinish
  \/ QTimeout \/ QDepthLimit \/ QStandPat \/ QNoCaptures \/ QExpand
  \/ QChildTimeout \/ QCutoff \/ QNextCapture \/ QFinish
  \/ CallAgain

Spec == Init /\ [][Next]_vars

\* The call has returned.
Returned == pc = "done"

(***************************************************************************)
(* order_moves on its own.  ordering holds one call of order_moves: its    *)
(* arguments and, once it has run, the array it leaves; the board and the  *)
(* mover are wBoard and wSide, the tables are killer_moves and             *)
(* history_heuristic.  The calls are made with the tables of a fresh       *)
(* engine and with the tables of a long search.                            *)
(***************************************************************************)

\* The history counters of the Rat, by square, and the killers of plies 1 to
\* 26 (from_row, from_col, to_row, to_col, order_score; all are quiet Rat
\* moves) as they stand in the search of RatsLayout with max_depth 28 when
\* alpha_beta orders the moves of its call number 154302, at ply 21.  The
\* counters grow by depth * depth at every cutoff by a quiet move.
DeepHistory ==
  LET counters ==
      <<
         9248, 2772, 722, 2505, 9151, 5466, 6027, 26762, 39822, 18974, 7285, 11822,
         2075, 9768, 44029, 80174, 18713, 11863, 7801, 3601, 13320, 37492, 70831, 21108,
         18063, 16331, 4598, 14230, 63246, 60067, 24426, 38766, 33032, 11031, 19735, 55331,
         38082, 25296, 35921, 23127, 4732, 14816, 47085, 33576, 29609, 44134, 65407, 44975,
         34935, 36070, 19755, 13579, 11813, 5948, 4500, 4069, 16269, 22640, 10664, 9194,
         1, 0, 171
      >>
  IN [idx \in {k - 1 : k \in {n \in 1 .. Len(counters) : counters[n] # 0}}
        |-> counters[idx + 1]]

DeepKillers ==
  LET moves ==
      <<
         <<<<1, 0, 2, 0, 200000>>, <<0, 1, 1, 1, 200000>>>>, <<<<7, 6, 6, 6, 200000>>, <<8, 5, 7, 5, 200000>>>>,
         <<<<1, 1, 2, 1, 200000>>, <<2, 0, 3, 0, 200000>>>>, <<<<8, 6, 7, 6, 200000>>, <<7, 5, 7, 4, 200000>>>>,
         <<<<1, 1, 1, 0, 200000>>, <<1, 1, 2, 1, 200000>>>>, <<<<7, 4, 7, 3, 200000>>, <<5, 6, 4, 6, 200000>>>>,
         <<<<3, 1, 4, 1, 200000>>, <<3, 1, 3, 2, 200000>>>>, <<<<7, 3, 7, 2, 200000>>, <<7, 3, 6, 3, 200000>>>>,
         <<<<2, 1, 3, 1, 200000>>, <<3, 1, 4, 1, 200000>>>>, <<<<7, 2, 6, 2, 200000>>, <<6, 3, 6, 2, 200000>>>>,
         <<<<2, 0, 3, 0, 200000>>, <<3, 1, 2, 1, 200000>>>>, <<<<6, 2, 5, 2, 200000>>, <<8, 2, 8, 1, 200000>>>>,
         <<<<1, 0, 1, 1, 200000>>, <<1, 0, 2, 0, 200000>>>>, <<<<3, 6, 2, 6, 200000>>, <<7, 6, 6, 6, 200000>>>>,
         <<<<1, 1, 1, 0, 200000>>, <<1, 1, 1, 2, 200000>>>>, <<<<6, 3, 5, 3, 200000>>, <<2, 4, 2, 3, 11483>>>>,
         <<<<1, 0, 2, 0, 200000>>, <<1, 2, 1, 3, 200000>>>>, <<<<0, 5, 0, 4, 200000>>, <<2, 3, 1, 3, 200000>>>>,
         <<<<2, 0, 3, 0, 200000>>, <<1, 3, 2, 3, 200000>>>>, <<<<7, 1, 6, 1, 33575>>, <<6, 0, 5, 0, 200000>>>>,
         <<<<3, 0, 4, 0, 200000>>, <<2, 0, 1, 0, 200000>>>>, <<<<3, 2, 2, 2, 200000>>, <<3, 0, 3, 1, 70827>>>>,
         <<<<0, 4, 1, 4, 200000>>, <<3, 2, 4, 2, 200000>>>>, <<<<4, 0, 4, 1, 200000>>, <<4, 0, 3, 0, 200000>>>>,
         <<<<2, 1, 2, 2, 200000>>, <<1, 2, 2, 2, 200000>>>>, <<<<4, 1, 4, 0, 200000>>, <<3, 0, 4, 0, 200000>>>>
      >>
      killer(k) ==
        [valid |-> TRUE,
         move |-> [Move(k[1], k[2], k[3], k[4], PIECE_TYPE_RAT, NO_PIECE)
                     EXCEPT !.order_score = k[5]]]
  IN [ply \in 0 .. (MAX_PLY_FOR_KILLERS - 1) |->
        IF ply >= 1 /\ ply <= Len(moves)
        THEN <<killer(moves[ply][1]), killer(moves[ply][2])>>
        ELSE <<NoKiller, NoKiller>>]

\* The calls of order_moves, each on the moves generated for wBoard and
\* wSide: with fresh tables, from quiescence_search and the root (ply -1) and
\* from alpha_beta below the root, without a table move or with one of the
\* moves of the position as the table move; and the call of the long search,
\* on its board with Player1 to move.
OrderInit ==
  /\ LET OrderCall(captures_only, tt_move, tt_move_valid, ply) ==
           [moves |-> generate_all_valid_moves(wBoard, wSide, captures_only),
            tt_move |-> tt_move, tt_move_valid |-> tt_move_valid, ply |-> ply,
            sorted |-> None]
         all == generate_all_valid_moves(wBoard, wSide, FALSE)
     IN \/ /\ \E l \in {RatsLayout, DogWolfLayout, AmbushLayout, CornerLayout,
                          ExchangeLayout, WolfLeopardLayout, CatsLayout} :
                wBoard = BoardOf(l)
           /\ wSide \in {PLAYER0, PLAYER1}
           /\ killer_moves = NoKillers
           /\ history_heuristic = << >>
           /\ \E ply \in {-1, 0, 1} :
                \/ \E captures_only \in BOOLEAN :
                     ordering = Some(OrderCall(captures_only, Move(0, 0, 0, 0, 0, 0), FALSE, ply))
                \/ \E t \in 1 .. Len(all) :
                     ordering = Some(OrderCall(FALSE, all[t], TRUE, ply))
        \/ /\ wBoard = BoardOf({ <<PIECE_TYPE_RAT, PLAYER1, 2, 0>>,
                                 <<PIECE_TYPE_RAT, PLAYER0, 5, 0>> })
           /\ wSide = PLAYER1
           /\ killer_moves = DeepKillers
           /\ history_heuristic = DeepHistory
           /\ ordering = Some(OrderCall(FALSE, Move(2, 0, 3, 0, PIECE_TYPE_RAT, NO_PIECE),
                                        TRUE, 21))
  /\ wHash = compute_zobrist_key_full(wBoard, wSide)
  /\ wSteps = 0
  /\ wCaptures = 0
  /\ wNulls = 0
  /\ inBoard = EmptyBoard
  /\ inDepth = 0
  /\ pc = "start"
  /\ drv = DrvIdle
  /\ stack = << >>
  /\ ret = None
  /\ expired = FALSE
  /\ ai_run_counter = 0
  /\ transposition_table = << >>
  /\ path_hashes = [k \in 0 .. (PathSlots - 1) |-> Uninit]
  /\ result_buffer = [k \in 0 .. (ResultSlots - 1) |-> None]
  /\ iterLog = << >>
  /\ FirstCall

\* order_moves runs: the array is scored and sorted in place.
OrderMoves ==
  /\ ordering # None
  /\ ordering[1].sorted = None
  /\ ordering' = Some([ordering[1] EXCEPT !.sorted =
                         Some(order_moves(ordering[1].moves, ordering[1].tt_move,
                                          ordering[1].tt_move_valid, ordering[1].ply,
                                          killer_moves, history_heuristic))])
  /\ UNCHANGED <<wvars, inBoard, inDepth, pc, drv, stack, ret, expired, ai_run_counter,
                 tables, path_hashes, result_buffer, iterLog, calls, earlier, rounded>>

SpecOrder == OrderInit /\ [][OrderMoves]_vars

(***************************************************************************)
(* A search deep enough to fill the path array.  findBestMoveWasm is       *)
(* called with Player1's Cat at (0,1), Player0's Wolf at (5,3) and         *)
(* max_depth 36.  PathInit is the state in which its alpha_beta call       *)
(* number 61183 is entered, the first call with path_hash_count 33: the    *)
(* state the actions above reach from the fresh engine after 118489 steps  *)
(* when no clock read finds the time limit passed, no slot of the path     *)
(* array that has not been written holds the hash it is compared with and  *)
(* every evaluation takes the smaller of its values.  The driver is in     *)
(* iteration 36, at its first root move, and 33 alpha_beta calls are       *)
(* waiting for a child.                                                    *)
(* From there the calls are followed as in Spec, the clock included, until *)
(* MaxPathCalls more calls have been entered.                              *)
(***************************************************************************)

\* alpha_beta calls followed after the one being entered in PathInit.
MaxPathCalls == 4

PathInit ==
  LET M(fr, fc, tr, tc, pt, cap, score) ==
        [Move(fr, fc, tr, tc, pt, cap) EXCEPT !.order_score = score]
      \* findBestMoveWasm's locals.
      driver ==
        [i |-> 0, root_moves |-> <<M(0, 1, 0, 2, 1, 9, 200000), M(0, 1, 0, 0, 1, 9, 21929), M(0,
        1, 1, 1, 1, 9, 4882)>>, current_depth_iter |-> 36,
        current_iter_best_score |-> INT_MIN, current_iter_best_move |-> M(0, 1, 0, 2, 1, 9,
        200000), best_move_overall |-> M(0, 1, 0, 2, 1, 9, 200000),
        best_move_overall_found |-> TRUE, best_score_overall |-> -431, depth_achieved |-> 35,
        root_hash |-> <<206, 239, 216, 140, 96, 127, 163, 40>>]
      \* The calls in progress, outermost first, the board of each as its
      \* pieces (type, player, row, column).
      frames ==
        <<[pc |-> "child", kind |-> "ab", path_hash_count |-> 0, board |-> {<<1, 1, 0, 2>>, <<3,
        0, 5, 3>>}, depth |-> 35, i |-> 0, hash |-> <<245, 102, 237, 235, 76, 3, 226, 85>>,
        ply |-> 0, moves |-> <<M(5, 3, 4, 3, 3, 9, 200000), M(5, 3, 6, 3, 3, 9, 97394)>>,
        alpha |-> INT_MIN, beta |-> INT_MAX, is_maximizing_player |-> FALSE,
        allow_null_move |-> TRUE, best_score |-> INT_MAX, best_move_for_node |-> M(-1, 0, 0,
        0, 0, 9, 0), best_move_for_node_valid |-> FALSE, original_alpha |-> INT_MIN,
        loop_beta |-> INT_MAX, moves_searched_full_depth |-> 0, current_search_depth |-> 34],
        [pc |-> "child", kind |-> "ab", path_hash_count |-> 1, board |-> {<<1, 1, 0, 2>>, <<3,
        0, 4, 3>>}, depth |-> 34, i |-> 0, hash |-> <<2, 192, 24, 251, 66, 120, 7, 32>>,
        ply |-> 1, moves |-> <<M(0, 2, 1, 2, 1, 9, 200000), M(0, 2, 0, 1, 1, 9, 90000)>>,
        alpha |-> INT_MIN, beta |-> INT_MAX, is_maximizing_player |-> TRUE,
        allow_null_move |-> TRUE, best_score |-> INT_MIN, best_move_for_node |-> M(-1, 0, 0,
        0, 0, 9, 0), best_move_for_node_valid |-> FALSE, original_alpha |-> INT_MIN,
        loop_beta |-> INT_MAX, moves_searched_full_depth |-> 0, current_search_depth |-> 33],
        [pc |-> "child", kind |-> "ab", path_hash_count |-> 2, board |-> {<<1, 1, 1, 2>>, <<3,
        0, 4, 3>>}, depth |-> 33, i |-> 0, hash |-> <<161, 97, 143, 243, 102, 119, 5, 246>>,
        ply |-> 2, moves |-> <<M(4, 3, 3, 3, 3, 9, 200000), M(4, 3, 5, 3, 3, 9, 75066)>>,
        alpha |-> INT_MIN, beta |-> INT_MAX, is_maximizing_player |-> FALSE,
        allow_null_move |-> TRUE, best_score |-> INT_MAX, best_move_for_node |-> M(-1, 0, 0,
        0, 0, 9, 0), best_move_for_node_valid |-> FALSE, original_alpha |-> INT_MIN,
        loop_beta |-> INT_MAX, moves_searched_full_depth |-> 0, current_search_depth |-> 32],
        [pc |-> "child", kind |-> "ab", path_hash_count |-> 3, board |-> {<<1, 1, 1, 2>>, <<3,
        0, 3, 3>>}, depth |-> 32, i |-> 0, hash |-> <<244, 50, 37, 19, 150, 141, 74, 34>>,
        ply |-> 3, moves |-> <<M(1, 2, 1, 3, 1, 9, 200000), M(1, 2, 2, 2, 1, 9, 90000), M(1, 2,
        0, 2, 1, 9, 36743), M(1, 2, 1, 1, 1, 9, 4882)>>, alpha |-> INT_MIN,
        beta |-> INT_MAX, is_maximizing_player |-> TRUE, allow_null_move |-> TRUE,
        best_score |-> INT_MIN, best_move_for_node |-> M(-1, 0, 0, 0, 0, 9, 0),
        best_move_for_node_valid |-> FALSE, original_alpha |-> INT_MIN,
        loop_beta |-> INT_MAX, moves_searched_full_depth |-> 0, current_search_depth |-> 31],
        [pc |-> "child", kind |-> "ab", path_hash_count |-> 4, board |-> {<<1, 1, 1, 3>>, <<3,
        0, 3, 3>>}, depth |-> 31, i |-> 0, hash |-> <<159, 54, 204, 126, 127, 22, 47, 134>>,
        ply |-> 4, moves |-> <<M(3, 3, 2, 3, 3, 9, 200000), M(3, 3, 4, 3, 3, 9, 89756)>>,
        alpha |-> INT_MIN, beta |-> INT_MAX, is_maximizing_player |-> FALSE,
        allow_null_move |-> TRUE, best_score |-> INT_MAX, best_move_for_node |-> M(-1, 0, 0,
        0, 0, 9, 0), best_move_for_node_valid |-> FALSE, original_alpha |-> INT_MIN,
        loop_beta |-> INT_MAX, moves_searched_full_depth |-> 0, current_search_depth |-> 30],
        [pc |-> "child", kind |-> "ab", path_hash_count |-> 5, board |-> {<<1, 1, 1, 3>>, <<3,
        0, 2, 3>>}, depth |-> 30, i |-> 0, hash |-> <<204, 234, 137, 101, 103, 129, 112, 149>>,
        ply |-> 5, moves |-> <<M(1, 3, 1, 4, 1, 9, 200000), M(1, 3, 1, 2, 1, 9, 90000)>>,
        alpha |-> INT_MIN, beta |-> INT_MAX, is_maximizing_player |-> TRUE,
        allow_null_move |-> TRUE, best_score |-> INT_MIN, best_move_for_node |-> M(-1, 0, 0,
        0, 0, 9, 0), best_move_for_node_valid |-> FALSE, original_alpha |-> INT_MIN,
        loop_beta |-> INT_MAX, moves_searched_full_depth |-> 0, current_search_depth |-> 29],
        [pc |-> "child", kind |-> "ab", path_hash_count |-> 6, board |-> {<<1, 1, 1, 4>>, <<3,
        0, 2, 3>>}, depth |-> 29, i |-> 0, hash |-> <<9, 1, 255, 128, 82, 75, 71, 138>>,
        ply |-> 6, moves |-> <<M(2, 3, 2, 4, 3, 9, 200000), M(2, 3, 3, 3, 3, 9, 112206), M(2, 3,
        1, 3, 3, 9, 64725), M(2, 3, 2, 2, 3, 9, 24248)>>, alpha |-> INT_MIN,
        beta |-> INT_MAX, is_maximizing_player |-> FALSE, allow_null_move |-> TRUE,
        best_score |-> INT_MAX, best_move_for_node |-> M(-1, 0, 0, 0, 0, 9, 0),
        best_move_for_node_valid |-> FALSE, original_alpha |-> INT_MIN,
        loop_beta |-> INT_MAX, moves_searched_full_depth |-> 0, current_search_depth |-> 28],
        [pc |-> "child", kind |-> "ab", path_hash_count |-> 7, board |-> {<<1, 1, 1, 4>>, <<3,
        0, 2, 4>>}, depth |-> 28, i |-> 0, hash |-> <<132, 18, 43, 24, 66, 134, 94, 86>>,
        ply |-> 7, moves |-> <<M(1, 4, 1, 5, 1, 9, 200000), M(1, 4, 0, 4, 1, 9, 90000), M(1, 4,
        1, 3, 1, 9, 12119)>>, alpha |-> INT_MIN, beta |-> INT_MAX,
        is_maximizing_player |-> TRUE, allow_null_move |-> TRUE, best_score |-> INT_MIN,
        best_move_for_node |-> M(-1, 0, 0, 0, 0, 9, 0), best_move_for_node_valid |-> FALSE,
        original_alpha |-> INT_MIN, loop_beta |-> INT_MAX,
        moves_searched_full_depth |-> 0, current_search_depth |-> 27], [pc |-> "child",
        kind |-> "ab", path_hash_count |-> 8, board |-> {<<1, 1, 1, 5>>, <<3, 0, 2, 4>>},
        depth |-> 27, i |-> 0, hash |-> <<203, 169, 36, 243, 14, 247, 84, 11>>, ply |-> 8,
        moves |-> <<M(2, 4, 1, 4, 3, 9, 200000), M(2, 4, 2, 3, 3, 9, 97503), M(2, 4, 2, 5, 3, 9,
        1511)>>, alpha |-> INT_MIN, beta |-> INT_MAX, is_maximizing_player |-> FALSE,
        allow_null_move |-> TRUE, best_score |-> INT_MAX, best_move_for_node |-> M(-1, 0, 0,
        0, 0, 9, 0), best_move_for_node_valid |-> FALSE, original_alpha |-> INT_MIN,
        loop_beta |-> INT_MAX, moves_searched_full_depth |-> 0, current_search_depth |-> 26],
        [pc |-> "child", kind |-> "ab", path_hash_count |-> 9, board |-> {<<1, 1, 1, 5>>, <<3,
        0, 1, 4>>}, depth |-> 26, i |-> 0, hash |-> <<84, 224, 104, 78, 124, 233, 51, 251>>,
        ply |-> 9, moves |-> <<M(1, 5, 2, 5, 1, 9, 200000), M(1, 5, 1, 6, 1, 9, 11838), M(1, 5,
        0, 5, 1, 9, 9564)>>, alpha |-> INT_MIN, beta |-> INT_MAX,
        is_maximizing_player |-> TRUE, allow_null_move |-> TRUE, best_score |-> INT_MIN,
        best_move_for_node |-> M(-1, 0, 0, 0, 0, 9, 0), best_move_for_node_valid |-> FALSE,
        original_alpha |-> INT_MIN, loop_beta |-> INT_MAX,
        moves_searched_full_depth |-> 0, current_search_depth |-> 25], [pc |-> "child",
        kind |-> "ab", path_hash_count |-> 10, board |-> {<<1, 1, 2, 5>>, <<3, 0, 1, 4>>},
        depth |-> 25, i |-> 0, hash |-> <<99, 63, 37, 24, 96, 111, 117, 31>>, ply |-> 10,
        moves |-> <<M(1, 4, 2, 4, 3, 9, 200000), M(1, 4, 1, 3, 3, 9, 64725), M(1, 4, 0, 4, 3, 9,
        14898), M(1, 4, 1, 5, 3, 9, 21)>>, alpha |-> INT_MIN, beta |-> INT_MAX,
        is_maximizing_player |-> FALSE, allow_null_move |-> TRUE, best_score |-> INT_MAX,
        best_move_for_node |-> M(-1, 0, 0, 0, 0, 9, 0), best_move_for_node_valid |-> FALSE,
        original_alpha |-> INT_MIN, loop_beta |-> INT_MAX,
        moves_searched_full_depth |-> 0, current_search_depth |-> 24], [pc |-> "child",
        kind |-> "ab", path_hash_count |-> 11, board |-> {<<1, 1, 2, 5>>, <<3, 0, 2, 4>>},
        depth |-> 24, i |-> 0, hash |-> <<252, 118, 105, 165, 18, 113, 18, 239>>, ply |-> 11,
        moves |-> <<M(2, 5, 2, 6, 1, 9, 200000), M(2, 5, 1, 5, 1, 9, 90000)>>,
        alpha |-> INT_MIN, beta |-> INT_MAX, is_maximizing_player |-> TRUE,
        allow_null_move |-> TRUE, best_score |-> INT_MIN, best_move_for_node |-> M(-1, 0, 0,
        0, 0, 9, 0), best_move_for_node_valid |-> FALSE, original_alpha |-> INT_MIN,
        loop_beta |-> INT_MAX, moves_searched_full_depth |-> 0, current_search_depth |-> 23],
        [pc |-> "child", kind |-> "ab", path_hash_count |-> 12, board |-> {<<1, 1, 2, 6>>, <<3,
        0, 2, 4>>}, depth |-> 23, i |-> 1, hash |-> <<67, 228, 135, 192, 44, 190, 232, 203>>,
        ply |-> 12, moves |-> <<M(2, 4, 1, 4, 3, 9, 200000), M(2, 4, 2, 3, 3, 9, 97503), M(2, 4,
        2, 5, 3, 9, 1511)>>, alpha |-> INT_MIN, beta |-> -431,
        is_maximizing_player |-> FALSE, allow_null_move |-> TRUE, best_score |-> -431,
        best_move_for_node |-> M(2, 4, 1, 4, 3, 9, 200000), best_move_for_node_valid |-> TRUE,
        original_alpha |-> INT_MIN, loop_beta |-> INT_MAX,
        moves_searched_full_depth |-> 1, current_search_depth |-> 22], [pc |-> "child",
        kind |-> "ab", path_hash_count |-> 13, board |-> {<<1, 1, 2, 6>>, <<3, 0, 2, 3>>},
        depth |-> 22, i |-> 0, hash |-> <<206, 247, 83, 88, 60, 115, 241, 23>>, ply |-> 13,
        moves |-> <<M(2, 6, 3, 6, 1, 9, 200000), M(2, 6, 1, 6, 1, 9, 90000), M(2, 6, 2, 5, 1, 9,
        2147)>>, alpha |-> INT_MIN, beta |-> -431, is_maximizing_player |-> TRUE,
        allow_null_move |-> TRUE, best_score |-> INT_MIN, best_move_for_node |-> M(-1, 0, 0,
        0, 0, 9, 0), best_move_for_node_valid |-> FALSE, original_alpha |-> INT_MIN,
        loop_beta |-> -431, moves_searched_full_depth |-> 0, current_search_depth |-> 21],
        [pc |-> "child", kind |-> "ab", path_hash_count |-> 14, board |-> {<<1, 1, 3, 6>>, <<3,
        0, 2, 3>>}, depth |-> 21, i |-> 2, hash |-> <<217, 205, 246, 24, 186, 87, 89, 103>>,
        ply |-> 14, moves |-> <<M(2, 3, 1, 3, 3, 9, 200000), M(2, 3, 3, 3, 3, 9, 112478), M(2,
        3, 2, 2, 3, 9, 24264), M(2, 3, 2, 4, 3, 9, 19025)>>, alpha |-> INT_MIN,
        beta |-> -431, is_maximizing_player |-> FALSE, allow_null_move |-> TRUE,
        best_score |-> -431, best_move_for_node |-> M(2, 3, 1, 3, 3, 9, 200000),
        best_move_for_node_valid |-> TRUE, original_alpha |-> INT_MIN, loop_beta |-> -431,
        moves_searched_full_depth |-> 2, current_search_depth |-> 20], [pc |-> "child",
        kind |-> "ab", path_hash_count |-> 15, board |-> {<<1, 1, 3, 6>>, <<3, 0, 2, 2>>},
        depth |-> 20, i |-> 0, hash |-> <<146, 229, 85, 227, 11, 54, 80, 14>>, ply |-> 15,
        moves |-> <<M(3, 6, 4, 6, 1, 9, 200000), M(3, 6, 2, 6, 1, 9, 90000)>>,
        alpha |-> INT_MIN, beta |-> -431, is_maximizing_player |-> TRUE,
        allow_null_move |-> TRUE, best_score |-> INT_MIN, best_move_for_node |-> M(-1, 0, 0,
        0, 0, 9, 0), best_move_for_node_valid |-> FALSE, original_alpha |-> INT_MIN,
        loop_beta |-> -431, moves_searched_full_depth |-> 0, current_search_depth |-> 19],
        [pc |-> "child", kind |-> "ab", path_hash_count |-> 16, board |-> {<<1, 1, 4, 6>>, <<3,
        0, 2, 2>>}, depth |-> 19, i |-> 1, hash |-> <<111, 214, 205, 145, 201, 61, 141, 195>>,
        ply |-> 16, moves |-> <<M(2, 2, 2, 3, 3, 9, 200000), M(2, 2, 1, 2, 3, 9, 35246), M(2, 2,
        2, 1, 3, 9, 296)>>, alpha |-> INT_MIN, beta |-> -431,
        is_maximizing_player |-> FALSE, allow_null_move |-> TRUE, best_score |-> -431,
        best_move_for_node |-> M(2, 2, 2, 3, 3, 9, 200000), best_move_for_node_valid |-> TRUE,
        original_alpha |-> INT_MIN, loop_beta |-> -431, moves_searched_full_depth |-> 1,
        current_search_depth |-> 18], [pc |-> "child", kind |-> "ab", path_hash_count |-> 17,
        board |-> {<<1, 1, 4, 6>>, <<3, 0, 1, 2>>}, depth |-> 18, i |-> 0, hash |-> <<220, 175,
        25, 64, 75, 222, 236, 19>>, ply |-> 17, moves |-> <<M(4, 6, 5, 6, 1, 9, 200000), M(4, 6,
        3, 6, 1, 9, 90000)>>, alpha |-> INT_MIN, beta |-> -431,
        is_maximizing_player |-> TRUE, allow_null_move |-> TRUE, best_score |-> INT_MIN,
        best_move_for_node |-> M(-1, 0, 0, 0, 0, 9, 0), best_move_for_node_valid |-> FALSE,
        original_alpha |-> INT_MIN, loop_beta |-> -431, moves_searched_full_depth |-> 0,
        current_search_depth |-> 17], [pc |-> "child", kind |-> "ab", path_hash_count |-> 18,
        board |-> {<<1, 1, 5, 6>>, <<3, 0, 1, 2>>}, depth |-> 17, i |-> 3, hash |-> <<255, 171,
        173, 166, 48, 117, 199, 249>>, ply |-> 18, moves |-> <<M(1, 2, 1, 3, 3, 9, 200000), M(1,
        2, 2, 2, 3, 9, 24264), M(1, 2, 0, 2, 3, 9, 14252), M(1, 2, 1, 1, 3, 9, 2613)>>,
        alpha |-> INT_MIN, beta |-> -431, is_maximizing_player |-> FALSE,
        allow_null_move |-> TRUE, best_score |-> -431, best_move_for_node |-> M(1, 2, 1, 3, 3,
        9, 200000), best_move_for_node_valid |-> TRUE, original_alpha |-> INT_MIN,
        loop_beta |-> -431, moves_searched_full_depth |-> 3, current_search_depth |-> 16],
        [pc |-> "child", kind |-> "ab", path_hash_count |-> 19, board |-> {<<1, 1, 5, 6>>, <<3,
        0, 1, 1>>}, depth |-> 16, i |-> 0, hash |-> <<100, 91, 192, 68, 24, 71, 11, 85>>,
        ply |-> 19, moves |-> <<M(5, 6, 6, 6, 1, 9, 200000), M(5, 6, 4, 6, 1, 9, 90000)>>,
        alpha |-> INT_MIN, beta |-> -431, is_maximizing_player |-> TRUE,
        allow_null_move |-> TRUE, best_score |-> INT_MIN, best_move_for_node |-> M(-1, 0, 0,
        0, 0, 9, 0), best_move_for_node_valid |-> FALSE, original_alpha |-> INT_MIN,
        loop_beta |-> -431, moves_searched_full_depth |-> 0, current_search_depth |-> 15],
        [pc |-> "child", kind |-> "ab", path_hash_count |-> 20, board |-> {<<1, 1, 6, 6>>, <<3,
        0, 1, 1>>}, depth |-> 15, i |-> 1, hash |-> <<105, 24, 150, 49, 102, 42, 255, 89>>,
        ply |-> 20, moves |-> <<M(1, 1, 0, 1, 3, 9, 200000), M(1, 1, 1, 2, 3, 9, 35246), M(1, 1,
        1, 0, 3, 9, 904), M(1, 1, 2, 1, 3, 9, 296)>>, alpha |-> INT_MIN, beta |-> -431,
        is_maximizing_player |-> FALSE, allow_null_move |-> TRUE, best_score |-> -431,
        best_move_for_node |-> M(1, 1, 0, 1, 3, 9, 200000), best_move_for_node_valid |-> TRUE,
        original_alpha |-> INT_MIN, loop_beta |-> -431, moves_searched_full_depth |-> 1,
        current_search_depth |-> 14], [pc |-> "child", kind |-> "ab", path_hash_count |-> 21,
        board |-> {<<1, 1, 6, 6>>, <<3, 0, 1, 2>>}, depth |-> 14, i |-> 0, hash |-> <<242, 232,
        251, 211, 78, 24, 51, 245>>, ply |-> 21, moves |-> <<M(6, 6, 7, 6, 1, 9, 200000), M(6,
        6, 5, 6, 1, 9, 90000), M(6, 6, 6, 5, 1, 9, 28)>>, alpha |-> INT_MIN, beta |-> -431,
        is_maximizing_player |-> TRUE, allow_null_move |-> TRUE, best_score |-> INT_MIN,
        best_move_for_node |-> M(-1, 0, 0, 0, 0, 9, 0), best_move_for_node_valid |-> FALSE,
        original_alpha |-> INT_MIN, loop_beta |-> -431, moves_searched_full_depth |-> 0,
        current_search_depth |-> 13], [pc |-> "child", kind |-> "ab", path_hash_count |-> 22,
        board |-> {<<1, 1, 7, 6>>, <<3, 0, 1, 2>>}, depth |-> 13, i |-> 1, hash |-> <<253, 143,
        202, 20, 213, 58, 23, 80>>, ply |-> 22, moves |-> <<M(1, 2, 1, 3, 3, 9, 200000), M(1, 2,
        2, 2, 3, 9, 24264), M(1, 2, 0, 2, 3, 9, 14256), M(1, 2, 1, 1, 3, 9, 2613)>>,
        alpha |-> INT_MIN, beta |-> -431, is_maximizing_player |-> FALSE,
        allow_null_move |-> TRUE, best_score |-> -431, best_move_for_node |-> M(1, 2, 1, 3, 3,
        9, 200000), best_move_for_node_valid |-> TRUE, original_alpha |-> INT_MIN,
        loop_beta |-> -431, moves_searched_full_depth |-> 1, current_search_depth |-> 12],
        [pc |-> "child", kind |-> "ab", path_hash_count |-> 23, board |-> {<<1, 1, 7, 6>>, <<3,
        0, 2, 2>>}, depth |-> 12, i |-> 0, hash |-> <<78, 246, 30, 197, 87, 217, 118, 128>>,
        ply |-> 23, moves |-> <<M(7, 6, 7, 5, 1, 9, 200000), M(7, 6, 6, 6, 1, 9, 1209), M(7, 6,
        8, 6, 1, 9, 0)>>, alpha |-> INT_MIN, beta |-> -431, is_maximizing_player |-> TRUE,
        allow_null_move |-> TRUE, best_score |-> INT_MIN, best_move_for_node |-> M(-1, 0, 0,
        0, 0, 9, 0), best_move_for_node_valid |-> FALSE, original_alpha |-> INT_MIN,
        loop_beta |-> -431, moves_searched_full_depth |-> 0, current_search_depth |-> 11],
        [pc |-> "child", kind |-> "ab", path_hash_count |-> 24, board |-> {<<1, 1, 7, 5>>, <<3,
        0, 2, 2>>}, depth |-> 11, i |-> 0, hash |-> <<19, 60, 169, 121, 5, 35, 110, 245>>,
        ply |-> 24, moves |-> <<M(2, 2, 2, 3, 3, 9, 200000), M(2, 2, 1, 2, 3, 9, 35246), M(2, 2,
        2, 1, 3, 9, 296)>>, alpha |-> INT_MIN, beta |-> -431,
        is_maximizing_player |-> FALSE, allow_null_move |-> TRUE, best_score |-> INT_MAX,
        best_move_for_node |-> M(-1, 0, 0, 0, 0, 9, 0), best_move_for_node_valid |-> FALSE,
        original_alpha |-> INT_MIN, loop_beta |-> -431, moves_searched_full_depth |-> 0,
        current_search_depth |-> 10], [pc |-> "child", kind |-> "ab", path_hash_count |-> 25,
        board |-> {<<1, 1, 7, 5>>, <<3, 0, 2, 3>>}, depth |-> 10, i |-> 0, hash |-> <<88, 20,
        10, 130, 180, 66, 103, 156>>, ply |-> 25, moves |-> <<M(7, 5, 7, 6, 1, 9, 200000), M(7,
        5, 7, 4, 1, 9, 753), M(7, 5, 6, 5, 1, 9, 28), M(7, 5, 8, 5, 1, 9, 0)>>,
        alpha |-> INT_MIN, beta |-> -431, is_maximizing_player |-> TRUE,
        allow_null_move |-> TRUE, best_score |-> INT_MIN, best_move_for_node |-> M(-1, 0, 0,
        0, 0, 9, 0), best_move_for_node_valid |-> FALSE, original_alpha |-> INT_MIN,
        loop_beta |-> -431, moves_searched_full_depth |-> 0, current_search_depth |-> 9],
        [pc |-> "child", kind |-> "ab", path_hash_count |-> 26, board |-> {<<1, 1, 7, 6>>, <<3,
        0, 2, 3>>}, depth |-> 9, i |-> 0, hash |-> <<5, 222, 189, 62, 230, 184, 127, 233>>,
        ply |-> 26, moves |-> <<M(2, 3, 3, 3, 3, 9, 200000), M(2, 3, 1, 3, 3, 9, 64996), M(2, 3,
        2, 2, 3, 9, 24264), M(2, 3, 2, 4, 3, 9, 19025)>>, alpha |-> INT_MIN, beta |-> -431,
        is_maximizing_player |-> FALSE, allow_null_move |-> TRUE, best_score |-> INT_MAX,
        best_move_for_node |-> M(-1, 0, 0, 0, 0, 9, 0), best_move_for_node_valid |-> FALSE,
        original_alpha |-> INT_MIN, loop_beta |-> -431, moves_searched_full_depth |-> 0,
        current_search_depth |-> 8], [pc |-> "child", kind |-> "ab", path_hash_count |-> 27,
        board |-> {<<1, 1, 7, 6>>, <<3, 0, 3, 3>>}, depth |-> 8, i |-> 0, hash |-> <<86, 2, 248,
        37, 254, 47, 32, 250>>, ply |-> 27, moves |-> <<M(7, 6, 7, 5, 1, 9, 200000), M(7, 6, 6,
        6, 1, 9, 1209), M(7, 6, 8, 6, 1, 9, 0)>>, alpha |-> INT_MIN, beta |-> -431,
        is_maximizing_player |-> TRUE, allow_null_move |-> TRUE, best_score |-> INT_MIN,
        best_move_for_node |-> M(-1, 0, 0, 0, 0, 9, 0), best_move_for_node_valid |-> FALSE,
        original_alpha |-> INT_MIN, loop_beta |-> -431, moves_searched_full_depth |-> 0,
        current_search_depth |-> 7], [pc |-> "child", kind |-> "ab", path_hash_count |-> 28,
        board |-> {<<1, 1, 7, 5>>, <<3, 0, 3, 3>>}, depth |-> 7, i |-> 1, hash |-> <<11, 200,
        79, 153, 172, 213, 56, 143>>, ply |-> 28, moves |-> <<M(3, 3, 2, 3, 3, 9, 200000), M(3,
        3, 4, 3, 3, 9, 90352)>>, alpha |-> INT_MIN, beta |-> -431,
        is_maximizing_player |-> FALSE, allow_null_move |-> TRUE, best_score |-> -431,
        best_move_for_node |-> M(3, 3, 2, 3, 3, 9, 200000), best_move_for_node_valid |-> TRUE,
        original_alpha |-> INT_MIN, loop_beta |-> -431, moves_searched_full_depth |-> 1,
        current_search_depth |-> 6], [pc |-> "child", kind |-> "ab", path_hash_count |-> 29,
        board |-> {<<1, 1, 7, 5>>, <<3, 0, 4, 3>>}, depth |-> 6, i |-> 0, hash |-> <<94, 155,
        229, 121, 92, 47, 119, 91>>, ply |-> 29, moves |-> <<M(7, 5, 7, 4, 1, 9, 200000), M(7,
        5, 7, 6, 1, 9, 80000), M(7, 5, 6, 5, 1, 9, 28), M(7, 5, 8, 5, 1, 9, 0)>>,
        alpha |-> INT_MIN, beta |-> -431, is_maximizing_player |-> TRUE,
        allow_null_move |-> TRUE, best_score |-> INT_MIN, best_move_for_node |-> M(-1, 0, 0,
        0, 0, 9, 0), best_move_for_node_valid |-> FALSE, original_alpha |-> INT_MIN,
        loop_beta |-> -431, moves_searched_full_depth |-> 0, current_search_depth |-> 5],
        [pc |-> "child", kind |-> "ab", path_hash_count |-> 30, board |-> {<<1, 1, 7, 4>>, <<3,
        0, 4, 3>>}, depth |-> 5, i |-> 0, hash |-> <<5, 81, 120, 5, 59, 161, 12, 16>>,
        ply |-> 30, moves |-> <<M(4, 3, 3, 3, 3, 9, 200000), M(4, 3, 5, 3, 3, 9, 75406)>>,
        alpha |-> INT_MIN, beta |-> -431, is_maximizing_player |-> FALSE,
        allow_null_move |-> TRUE, best_score |-> INT_MAX, best_move_for_node |-> M(-1, 0, 0,
        0, 0, 9, 0), best_move_for_node_valid |-> FALSE, original_alpha |-> INT_MIN,
        loop_beta |-> -431, moves_searched_full_depth |-> 0, current_search_depth |-> 4],
        [pc |-> "child", kind |-> "ab", path_hash_count |-> 31, board |-> {<<1, 1, 7, 4>>, <<3,
        0, 3, 3>>}, depth |-> 4, i |-> 0, hash |-> <<80, 2, 210, 229, 203, 91, 67, 196>>,
        ply |-> 31, moves |-> <<M(7, 4, 7, 3, 1, 9, 200000), M(7, 4, 7, 5, 1, 9, 1466), M(7, 4,
        8, 4, 1, 9, 44), M(7, 4, 6, 4, 1, 9, 0)>>, alpha |-> INT_MIN, beta |-> -431,
        is_maximizing_player |-> TRUE, allow_null_move |-> TRUE, best_score |-> INT_MIN,
        best_move_for_node |-> M(-1, 0, 0, 0, 0, 9, 0), best_move_for_node_valid |-> FALSE,
        original_alpha |-> INT_MIN, loop_beta |-> -431, moves_searched_full_depth |-> 0,
        current_search_depth |-> 3], [pc |-> "child", kind |-> "ab", path_hash_count |-> 32,
        board |-> {<<1, 1, 7, 3>>, <<3, 0, 3, 3>>}, depth |-> 3, i |-> 0, hash |-> <<189, 103,
        78, 83, 42, 67, 59, 135>>, ply |-> 32, moves |-> <<M(3, 3, 2, 3, 3, 9, 200000), M(3, 3,
        4, 3, 3, 9, 90352)>>, alpha |-> INT_MIN, beta |-> -431,
        is_maximizing_player |-> FALSE, allow_null_move |-> TRUE, best_score |-> INT_MAX,
        best_move_for_node |-> M(-1, 0, 0, 0, 0, 9, 0), best_move_for_node_valid |-> FALSE,
        original_alpha |-> INT_MIN, loop_beta |-> -431, moves_searched_full_depth |-> 0,
        current_search_depth |-> 2], [pc |-> "entry", kind |-> "ab", path_hash_count |-> 33,
        board |-> {<<1, 1, 7, 3>>, <<3, 0, 2, 3>>}, depth |-> 2, i |-> 0, hash |-> <<238, 187,
        11, 72, 50, 212, 100, 148>>, ply |-> 33, moves |-> <<>>, alpha |-> INT_MIN,
        beta |-> -431, is_maximizing_player |-> TRUE, allow_null_move |-> TRUE,
        best_score |-> 0, best_move_for_node |-> M(-1, 0, 0, 0, 0, 9, 0),
        best_move_for_node_valid |-> FALSE, original_alpha |-> INT_MIN, loop_beta |-> -431,
        moves_searched_full_depth |-> 0, current_search_depth |-> 0]>>
      \* The written slots of transposition_table: index, hash_key, score,
      \* depth, flag, best_move, best_move_valid.
      entries ==
        {<<138, <<118, 255, 63, 196, 200, 88, 96, 157>>, -19977, 3, 2, <<3, 6, 4, 6, 3, 1,
        119600>>, TRUE>>, <<954, <<186, 3, 240, 54, 165, 8, 118, 126>>, 431, 5, 2, <<2, 3, 3, 3,
        3, 9, 200000>>, TRUE>>, <<1118, <<162, 251, 191, 73, 127, 31, 36, 138>>, 2147483646, 1,
        2, <<3, 3, 4, 3, 1, 9, 862>>, TRUE>>, <<3809, <<31, 241, 239, 98, 164, 163, 249, 178>>,
        -2147483646, 12, 1, <<1, 3, 1, 4, 1, 9, 200000>>, TRUE>>, <<4962, <<98, 19, 128, 190,
        200, 111, 161, 40>>, 431, 17, 2, <<7, 2, 8, 2, 3, 9, 200000>>, TRUE>>, <<5462, <<170,
        234, 223, 89, 53, 224, 145, 174>>, -2147483646, 1, 1, <<1, 0, 1, 1, 3, 9, 200000>>,
        TRUE>>, <<5678, <<46, 22, 112, 17, 92, 66, 130, 14>>, -19979, 5, 2, <<6, 2, 6, 1, 3, 1,
        200000>>, TRUE>>, <<6062, <<174, 23, 160, 104, 199, 149, 218, 89>>, -431, 3, 1, <<8, 0,
        7, 0, 1, 9, 200000>>, TRUE>>, <<6252, <<148, 231, 47, 235, 165, 173, 125, 231>>, -19987,
        16, 2, <<2, 5, 2, 4, 1, 9, 200000>>, TRUE>>, <<6397, <<253, 24, 80, 254, 254, 112, 188,
        102>>, 431, 10, 2, <<2, 2, 1, 2, 1, 9, 200000>>, TRUE>>, <<6748, <<92, 26, 96, 150, 54,
        74, 17, 20>>, 19972, 2, 1, <<7, 2, 7, 3, 3, 9, 67683>>, TRUE>>, <<6931, <<19, 27, 32,
        85, 87, 31, 222, 79>>, 2147483646, 3, 2, <<0, 0, 0, 1, 3, 9, 200000>>, TRUE>>, <<7821,
        <<141, 30, 192, 154, 22, 240, 229, 51>>, 0, 7, 1, <<6, 2, 7, 2, 3, 9, 200000>>, TRUE>>,
        <<7932, <<252, 30, 128, 42, 153, 151, 127, 94>>, -19991, 25, 2, <<0, 2, 0, 1, 1, 9,
        200000>>, TRUE>>, <<10309, <<69, 40, 224, 179, 119, 224, 161, 14>>, -2147483646, 2, 1,
        <<6, 4, 6, 3, 1, 9, 200000>>, TRUE>>, <<12342, <<54, 48, 224, 238, 17, 116, 220, 68>>,
        431, 15, 2, <<7, 3, 6, 3, 3, 9, 200000>>, TRUE>>, <<12355, <<189, 207, 127, 27, 161, 13,
        152, 141>>, -2147483646, 1, 1, <<3, 0, 2, 0, 1, 9, 90000>>, TRUE>>, <<12573, <<29, 49,
        32, 98, 11, 216, 55, 48>>, 19970, 5, 1, <<7, 4, 7, 3, 1, 9, 200000>>, TRUE>>, <<12696,
        <<152, 49, 160, 8, 173, 42, 246, 48>>, 2147483646, 7, 2, <<1, 2, 2, 2, 1, 9, 200000>>,
        TRUE>>, <<13319, <<7, 52, 144, 200, 58, 11, 107, 93>>, 19972, 3, 1, <<8, 5, 8, 4, 1, 9,
        0>>, TRUE>>, <<13725, <<99, 202, 143, 91, 48, 67, 165, 201>>, -2147483646, 2, 1, <<4, 6,
        3, 6, 1, 9, 90000>>, TRUE>>, <<13797, <<229, 53, 160, 247, 4, 99, 255, 82>>, 431, 14, 2,
        <<7, 0, 6, 0, 1, 9, 200000>>, TRUE>>, <<14325, <<11, 200, 79, 153, 172, 213, 56, 143>>,
        -431, 3, 1, <<3, 3, 2, 3, 3, 9, 200000>>, TRUE>>, <<14518, <<182, 56, 80, 138, 14, 195,
        192, 31>>, 19968, 4, 1, <<6, 0, 5, 0, 3, 9, 186>>, TRUE>>, <<14690, <<158, 198, 127, 62,
        79, 241, 227, 223>>, 431, 1, 2, <<1, 0, 1, 1, 3, 9, 2081>>, TRUE>>, <<14826, <<22, 198,
        15, 243, 164, 22, 111, 162>>, 1, 8, 1, <<6, 0, 5, 0, 3, 9, 200000>>, TRUE>>, <<14856,
        <<8, 58, 64, 34, 115, 16, 233, 56>>, 2147483646, 1, 2, <<3, 3, 4, 3, 1, 9, 200000>>,
        TRUE>>, <<15557, <<59, 195, 175, 114, 254, 123, 247, 241>>, -431, 22, 2, <<2, 2, 1, 2,
        3, 9, 200000>>, TRUE>>, <<15702, <<170, 194, 223, 150, 168, 31, 230, 187>>, 2147483646,
        17, 2, <<2, 3, 3, 3, 1, 9, 200000>>, TRUE>>, <<15785, <<169, 61, 16, 105, 82, 84, 146,
        46>>, -431, 5, 1, <<5, 3, 4, 3, 3, 9, 200000>>, TRUE>>, <<15935, <<63, 62, 48, 35, 88,
        181, 153, 50>>, -2147483646, 1, 1, <<6, 0, 5, 0, 1, 9, 90000>>, TRUE>>, <<16425, <<215,
        191, 47, 148, 216, 171, 209, 161>>, -19975, 5, 2, <<0, 2, 0, 3, 3, 9, 200000>>, TRUE>>,
        <<17626, <<218, 68, 80, 177, 33, 120, 32, 78>>, -19991, 27, 2, <<0, 1, 0, 2, 1, 9,
        200000>>, TRUE>>, <<17767, <<103, 69, 128, 190, 89, 99, 132, 22>>, 1, 9, 1, <<4, 0, 3,
        0, 1, 9, 200000>>, TRUE>>, <<17817, <<153, 69, 80, 65, 198, 242, 38, 32>>, -431, 13, 2,
        <<1, 5, 1, 4, 3, 9, 200000>>, TRUE>>, <<18095, <<81, 185, 15, 9, 49, 226, 161, 183>>,
        -431, 2, 1, <<5, 0, 4, 0, 3, 9, 105>>, TRUE>>, <<19349, <<107, 180, 159, 17, 124, 140,
        130, 134>>, -19987, 15, 2, <<1, 2, 1, 3, 3, 9, 200000>>, TRUE>>, <<19386, <<70, 180, 47,
        228, 0, 138, 124, 247>>, 431, 1, 2, <<8, 1, 7, 1, 3, 9, 80000>>, TRUE>>, <<20146, <<78,
        177, 175, 41, 54, 79, 43, 212>>, -431, 13, 1, <<2, 4, 2, 3, 1, 9, 200000>>, TRUE>>,
        <<20374, <<106, 176, 159, 245, 47, 187, 6, 143>>, 431, 1, 2, <<4, 6, 3, 6, 3, 9,
        90000>>, TRUE>>, <<20646, <<166, 80, 0, 173, 217, 196, 33, 31>>, 19968, 2, 1, <<1, 2, 1,
        3, 3, 9, 200000>>, TRUE>>, <<20714, <<22, 175, 239, 210, 65, 243, 183, 157>>, -19983,
        20, 2, <<3, 6, 4, 6, 1, 9, 200000>>, TRUE>>, <<22847, <<63, 89, 0, 165, 174, 255, 12,
        62>>, -431, 5, 1, <<0, 0, 0, 1, 3, 9, 200000>>, TRUE>>, <<23118, <<178, 165, 15, 252,
        67, 196, 20, 159>>, 431, 11, 2, <<7, 3, 6, 3, 3, 9, 200000>>, TRUE>>, <<23246, <<50,
        165, 127, 62, 55, 157, 0, 138>>, 1, 10, 1, <<6, 1, 7, 1, 3, 9, 200000>>, TRUE>>,
        <<23321, <<231, 164, 175, 171, 169, 179, 132, 183>>, 431, 14, 2, <<2, 0, 3, 0, 1, 9,
        200000>>, TRUE>>, <<23396, <<100, 91, 192, 68, 24, 71, 11, 85>>, -431, 12, 1, <<5, 6, 6,
        6, 1, 9, 200000>>, TRUE>>, <<23438, <<114, 164, 223, 169, 98, 106, 227, 212>>,
        -2147483646, 3, 1, <<2, 6, 2, 5, 3, 9, 200000>>, TRUE>>, <<23793, <<15, 163, 239, 137,
        136, 242, 75, 200>>, -2147483646, 2, 1, <<8, 0, 7, 0, 1, 9, 200000>>, TRUE>>, <<24394,
        <<74, 95, 48, 219, 150, 142, 167, 113>>, -431, 23, 1, <<1, 0, 2, 0, 1, 9, 200000>>,
        TRUE>>, <<24923, <<91, 97, 16, 36, 49, 114, 235, 4>>, 431, 1, 2, <<3, 3, 2, 3, 1, 9,
        47184>>, TRUE>>, <<25222, <<122, 157, 15, 78, 76, 94, 89, 165>>, -431, 2, 1, <<8, 6, 7,
        6, 1, 9, 214>>, TRUE>>, <<25382, <<38, 99, 208, 93, 21, 244, 211, 74>>, 1, 6, 1, <<7, 0,
        6, 0, 3, 9, 200000>>, TRUE>>, <<27374, <<238, 106, 192, 65, 162, 244, 169, 119>>, 431,
        19, 2, <<7, 3, 6, 3, 3, 9, 200000>>, TRUE>>, <<27385, <<249, 106, 80, 18, 8, 119, 141,
        74>>, -431, 2, 1, <<7, 2, 7, 3, 3, 9, 200000>>, TRUE>>, <<27559, <<89, 148, 15, 107,
        162, 162, 34, 247>>, 0, 13, 1, <<7, 2, 8, 2, 3, 9, 200000>>, TRUE>>, <<29508, <<188,
        140, 31, 205, 77, 101, 102, 185>>, 431, 12, 2, <<4, 3, 5, 3, 3, 9, 75066>>, TRUE>>,
        <<29536, <<160, 140, 239, 213, 151, 11, 42, 204>>, -431, 3, 1, <<8, 1, 8, 0, 1, 9,
        200000>>, TRUE>>, <<29546, <<150, 140, 191, 162, 43, 136, 138, 194>>, -2147483646, 12,
        1, <<1, 2, 1, 3, 3, 9, 200000>>, TRUE>>, <<30641, <<79, 136, 175, 171, 201, 163, 119,
        184>>, -2147483646, 1, 1, <<0, 6, 1, 6, 1, 9, 90000>>, TRUE>>, <<31100, <<124, 121, 16,
        136, 98, 104, 202, 104>>, -431, 3, 1, <<7, 5, 6, 5, 1, 9, 200000>>, TRUE>>, <<31409,
        <<177, 122, 80, 162, 27, 202, 205, 70>>, -19991, 18, 2, <<1, 4, 1, 3, 3, 9, 200000>>,
        TRUE>>, <<31727, <<17, 132, 15, 219, 177, 31, 98, 251>>, -19971, 1, 2, <<1, 4, 1, 3, 3,
        9, 64986>>, TRUE>>, <<32946, <<178, 128, 224, 253, 160, 151, 80, 73>>, -19975, 5, 2,
        <<8, 1, 8, 2, 1, 9, 200000>>, TRUE>>, <<33885, <<93, 132, 160, 131, 254, 63, 13, 61>>,
        -2147483646, 18, 1, <<0, 6, 1, 6, 1, 9, 200000>>, TRUE>>, <<33971, <<77, 123, 31, 169,
        65, 90, 0, 213>>, -2147483646, 24, 1, <<2, 1, 2, 2, 1, 9, 200000>>, TRUE>>, <<33972,
        <<76, 123, 127, 88, 144, 43, 221, 175>>, 432, 8, 1, <<2, 0, 2, 1, 3, 9, 152>>, TRUE>>,
        <<34684, <<124, 135, 80, 173, 122, 217, 156, 87>>, -2147483646, 21, 1, <<1, 4, 2, 4, 3,
        9, 200000>>, TRUE>>, <<34696, <<120, 120, 191, 136, 164, 103, 160, 129>>, -431, 1, 1,
        <<8, 6, 7, 6, 1, 9, 50>>, TRUE>>, <<34819, <<3, 136, 144, 175, 156, 37, 158, 111>>,
        -19987, 22, 2, <<0, 4, 0, 3, 3, 9, 200000>>, TRUE>>, <<36367, <<15, 142, 16, 123, 186,
        38, 87, 77>>, 0, 19, 2, <<4, 3, 3, 3, 3, 9, 200000>>, TRUE>>, <<36517, <<91, 113, 191,
        173, 74, 155, 219, 211>>, -19991, 20, 2, <<1, 2, 1, 3, 3, 9, 200000>>, TRUE>>, <<36859,
        <<251, 143, 224, 212, 224, 78, 116, 110>>, -19971, 1, 2, <<1, 2, 1, 3, 3, 9, 64985>>,
        TRUE>>, <<37871, <<17, 108, 127, 204, 156, 32, 160, 249>>, -431, 8, 1, <<8, 5, 8, 6, 3,
        9, 200000>>, TRUE>>, <<38508, <<148, 105, 15, 100, 195, 177, 115, 230>>, 431, 11, 2,
        <<7, 2, 8, 2, 3, 9, 200000>>, TRUE>>, <<40543, <<161, 97, 143, 243, 102, 119, 5, 246>>,
        -431, 32, 2, <<4, 3, 3, 3, 3, 9, 200000>>, TRUE>>, <<40691, <<13, 97, 47, 199, 147, 127,
        147, 229>>, -2147483646, 5, 1, <<1, 6, 1, 5, 1, 9, 200000>>, TRUE>>, <<40986, <<26, 160,
        64, 156, 114, 1, 60, 0>>, -2147483646, 1, 1, <<1, 0, 1, 1, 3, 9, 411>>, TRUE>>, <<42212,
        <<28, 91, 79, 71, 224, 156, 133, 135>>, 431, 3, 2, <<4, 0, 3, 0, 3, 9, 90000>>, TRUE>>,
        <<43956, <<76, 84, 31, 239, 222, 118, 210, 240>>, -431, 13, 1, <<2, 4, 2, 5, 1, 9,
        200000>>, TRUE>>, <<43999, <<223, 171, 192, 213, 11, 189, 92, 55>>, 431, 2, 2, <<8, 5,
        7, 5, 1, 9, 297>>, TRUE>>, <<44342, <<202, 82, 191, 170, 243, 185, 178, 238>>,
        -2147483646, 9, 1, <<0, 2, 0, 1, 3, 9, 200000>>, TRUE>>, <<44442, <<102, 82, 31, 158, 6,
        177, 36, 253>>, -19983, 13, 2, <<1, 6, 2, 6, 1, 9, 200000>>, TRUE>>, <<44688, <<112, 81,
        223, 71, 149, 103, 80, 142>>, -431, 2, 1, <<7, 1, 6, 1, 1, 9, 200000>>, TRUE>>, <<44695,
        <<105, 81, 47, 215, 148, 181, 123, 162>>, -431, 4, 1, <<7, 2, 7, 3, 3, 9, 200000>>,
        TRUE>>, <<45388, <<180, 78, 255, 19, 190, 47, 158, 247>>, -431, 1, 1, <<1, 5, 1, 4, 1,
        9, 4624>>, TRUE>>, <<46245, <<91, 75, 127, 199, 104, 123, 186, 241>>, -2147483646, 2, 1,
        <<6, 2, 6, 1, 1, 9, 200000>>, TRUE>>, <<46338, <<2, 181, 192, 108, 103, 117, 135, 31>>,
        -431, 1, 1, <<6, 3, 5, 3, 1, 9, 90000>>, TRUE>>, <<46500, <<164, 181, 176, 107, 49, 253,
        216, 59>>, -19981, 13, 2, <<7, 2, 7, 3, 3, 1, 200000>>, TRUE>>, <<46709, <<139, 73, 47,
        235, 97, 153, 45, 230>>, 0, 9, 1, <<8, 1, 8, 0, 3, 9, 200000>>, TRUE>>, <<46903, <<55,
        183, 192, 136, 36, 119, 28, 119>>, 431, 1, 2, <<4, 0, 3, 0, 1, 9, 200000>>, TRUE>>,
        <<46904, <<200, 72, 95, 153, 22, 228, 90, 203>>, 0, 4, 1, <<0, 1, 0, 0, 1, 9, 200000>>,
        TRUE>>, <<47193, <<89, 184, 240, 122, 218, 218, 139, 56>>, 431, 2, 2, <<2, 6, 1, 6, 1,
        9, 200000>>, TRUE>>, <<48242, <<142, 67, 127, 13, 43, 197, 24, 155>>, 431, 7, 2, <<1, 1,
        1, 2, 3, 9, 200000>>, TRUE>>, <<48472, <<88, 189, 176, 181, 112, 70, 7, 81>>, -431, 7,
        1, <<5, 6, 4, 6, 1, 9, 200000>>, TRUE>>, <<48484, <<100, 189, 32, 34, 47, 232, 224,
        85>>, -2147483646, 19, 1, <<0, 2, 0, 1, 3, 9, 200000>>, TRUE>>, <<48491, <<149, 66, 159,
        120, 218, 246, 182, 214>>, -2147483646, 16, 1, <<4, 0, 3, 0, 1, 9, 200000>>, TRUE>>,
        <<49025, <<129, 191, 112, 30, 45, 221, 148, 19>>, -19987, 24, 2, <<1, 4, 1, 3, 3, 9,
        200000>>, TRUE>>, <<50801, <<113, 198, 128, 115, 7, 223, 223, 76>>, -2147483646, 9, 1,
        <<4, 6, 3, 6, 1, 9, 200000>>, TRUE>>, <<50976, <<32, 199, 192, 11, 60, 249, 167, 10>>,
        -19983, 13, 2, <<2, 1, 2, 0, 1, 9, 200000>>, TRUE>>, <<51591, <<135, 201, 96, 68, 197,
        19, 189, 48>>, -19991, 26, 2, <<1, 3, 0, 3, 3, 9, 200000>>, TRUE>>, <<52600, <<120, 205,
        64, 233, 101, 203, 168, 70>>, 431, 9, 2, <<8, 6, 8, 5, 3, 9, 200000>>, TRUE>>, <<52624,
        <<112, 50, 127, 20, 192, 30, 201, 156>>, 2147483646, 6, 2, <<0, 4, 1, 4, 1, 9, 200000>>,
        TRUE>>, <<52912, <<176, 206, 160, 62, 11, 84, 174, 57>>, 431, 7, 2, <<8, 1, 7, 1, 3, 9,
        200000>>, TRUE>>, <<52920, <<184, 206, 208, 190, 159, 131, 156, 62>>, -431, 3, 1, <<2,
        3, 2, 2, 1, 9, 200000>>, TRUE>>, <<53479, <<231, 208, 16, 49, 236, 90, 6, 118>>,
        -2147483646, 10, 1, <<7, 0, 6, 0, 1, 9, 200000>>, TRUE>>, <<54794, <<10, 214, 144, 31,
        121, 117, 208, 64>>, 431, 12, 2, <<1, 1, 2, 1, 3, 9, 152>>, TRUE>>, <<55107, <<189, 40,
        47, 95, 119, 201, 105, 140>>, -2147483646, 13, 1, <<1, 5, 1, 4, 1, 9, 200000>>, TRUE>>,
        <<55299, <<3, 216, 64, 210, 48, 180, 149, 54>>, 431, 16, 2, <<6, 0, 6, 1, 1, 9,
        200000>>, TRUE>>, <<56019, <<45, 37, 223, 37, 98, 52, 64, 185>>, -19983, 11, 2, <<0, 5,
        0, 4, 3, 9, 200000>>, TRUE>>, <<56212, <<148, 219, 208, 103, 136, 88, 243, 60>>,
        -2147483646, 2, 1, <<0, 0, 1, 0, 3, 9, 200000>>, TRUE>>, <<56381, <<61, 220, 0, 171, 94,
        62, 215, 82>>, -2147483646, 10, 1, <<4, 3, 3, 3, 1, 9, 200000>>, TRUE>>, <<56453, <<133,
        220, 48, 54, 134, 56, 149, 127>>, 431, 8, 2, <<6, 6, 7, 6, 1, 9, 200000>>, TRUE>>,
        <<57221, <<133, 223, 240, 163, 141, 18, 248, 126>>, -19983, 13, 2, <<2, 2, 1, 2, 3, 9,
        200000>>, TRUE>>, <<57313, <<31, 32, 47, 94, 210, 73, 223, 147>>, -431, 2, 1, <<2, 5, 2,
        6, 3, 9, 90000>>, TRUE>>, <<57351, <<7, 224, 128, 86, 91, 218, 162, 105>>, -19975, 8, 2,
        <<3, 3, 2, 3, 3, 9, 200000>>, TRUE>>, <<57781, <<181, 225, 208, 53, 222, 70, 18, 33>>,
        -431, 5, 1, <<0, 1, 0, 2, 3, 9, 200000>>, TRUE>>, <<58685, <<61, 229, 240, 197, 226, 88,
        17, 126>>, 2147483646, 10, 2, <<1, 5, 2, 5, 3, 9, 200000>>, TRUE>>, <<58820, <<60, 26,
        127, 57, 107, 222, 248, 139>>, -2147483646, 9, 1, <<1, 3, 2, 3, 3, 9, 200000>>, TRUE>>,
        <<59613, <<35, 23, 159, 147, 204, 162, 245, 182>>, 431, 24, 2, <<1, 3, 2, 3, 1, 9,
        200000>>, TRUE>>, <<59819, <<85, 22, 159, 229, 143, 49, 231, 166>>, 431, 4, 2, <<1, 4,
        1, 5, 1, 9, 200000>>, TRUE>>, <<59991, <<87, 234, 80, 8, 232, 119, 41, 25>>, 431, 6, 2,
        <<3, 3, 2, 3, 1, 9, 200000>>, TRUE>>, <<60138, <<22, 21, 111, 37, 200, 198, 105, 203>>,
        -19987, 19, 2, <<0, 2, 1, 2, 1, 9, 200000>>, TRUE>>, <<60294, <<134, 235, 32, 195, 146,
        49, 7, 98>>, -431, 3, 1, <<2, 5, 1, 5, 1, 9, 200000>>, TRUE>>, <<60769, <<159, 18, 207,
        178, 33, 108, 159, 182>>, -19991, 26, 2, <<1, 3, 0, 3, 3, 9, 200000>>, TRUE>>, <<60939,
        <<11, 238, 192, 60, 123, 18, 131, 34>>, -2147483646, 14, 1, <<1, 6, 1, 5, 1, 9,
        200000>>, TRUE>>, <<61095, <<167, 238, 96, 8, 142, 26, 21, 49>>, -431, 28, 2, <<2, 3, 2,
        2, 3, 9, 200000>>, TRUE>>, <<62434, <<226, 243, 192, 105, 20, 75, 68, 49>>, 431, 11, 2,
        <<7, 4, 7, 3, 3, 9, 200000>>, TRUE>>, <<62539, <<75, 244, 240, 82, 169, 55, 16, 18>>,
        -2147483646, 28, 1, <<2, 1, 2, 2, 1, 9, 200000>>, TRUE>>, <<62835, <<141, 10, 95, 167,
        151, 26, 193, 216>>, 432, 1, 1, <<0, 5, 1, 5, 1, 9, 30676>>, TRUE>>, <<63072, <<96, 246,
        48, 120, 32, 86, 88, 12>>, 431, 1, 2, <<1, 2, 1, 3, 3, 9, 56148>>, TRUE>>, <<63343,
        <<111, 247, 32, 164, 238, 80, 243, 107>>, 0, 15, 1, <<6, 4, 7, 4, 3, 9, 200000>>,
        TRUE>>, <<63708, <<220, 248, 176, 115, 81, 177, 166, 64>>, 0, 3, 1, <<1, 0, 2, 0, 1, 9,
        200000>>, TRUE>>, <<63995, <<251, 249, 0, 109, 83, 96, 181, 29>>, 431, 8, 2, <<1, 2, 2,
        2, 1, 9, 200000>>, TRUE>>, <<64429, <<173, 251, 96, 33, 103, 152, 89, 106>>, 2147483646,
        4, 2, <<3, 6, 2, 6, 3, 9, 200000>>, TRUE>>, <<64510, <<254, 251, 48, 236, 113, 174, 134,
        122>>, -431, 21, 1, <<0, 2, 0, 1, 1, 9, 200000>>, TRUE>>, <<65271, <<9, 1, 255, 128, 82,
        75, 71, 138>>, -431, 19, 2, <<2, 3, 2, 4, 3, 9, 200000>>, TRUE>>, <<65288, <<248, 0,
        127, 176, 83, 211, 194, 162>>, 431, 2, 2, <<3, 3, 2, 3, 3, 9, 200000>>, TRUE>>, <<65374,
        <<94, 255, 208, 80, 222, 115, 232, 48>>, 431, 1, 2, <<1, 2, 1, 3, 3, 9, 56147>>, TRUE>>,
        <<65530, <<250, 255, 48, 38, 39, 28, 43, 96>>, -431, 2, 1, <<6, 2, 6, 1, 1, 9, 200000>>,
        TRUE>>, <<65637, <<101, 0, 145, 56, 252, 31, 241, 4>>, 0, 8, 1, <<0, 6, 1, 6, 1, 9,
        200000>>, TRUE>>, <<65795, <<3, 1, 81, 251, 221, 69, 253, 36>>, 0, 3, 1, <<6, 5, 6, 6,
        3, 9, 200000>>, TRUE>>, <<65812, <<236, 254, 30, 196, 242, 89, 192, 159>>, -19989, 21,
        2, <<2, 5, 1, 5, 3, 1, 200000>>, TRUE>>, <<66012, <<36, 254, 110, 106, 120, 92, 132,
        170>>, -431, 17, 1, <<4, 6, 5, 6, 1, 9, 200000>>, TRUE>>, <<66028, <<20, 254, 174, 103,
        153, 93, 72, 254>>, 431, 5, 2, <<7, 4, 7, 3, 3, 9, 200000>>, TRUE>>, <<66280, <<232, 2,
        161, 152, 21, 12, 146, 73>>, -431, 3, 1, <<6, 6, 5, 6, 1, 9, 796>>, TRUE>>, <<66451,
        <<147, 3, 225, 70, 127, 241, 234, 53>>, -2147483646, 3, 1, <<1, 0, 0, 0, 1, 9, 200000>>,
        TRUE>>, <<67760, <<80, 247, 110, 211, 224, 185, 213, 234>>, 2147483646, 2, 2, <<1, 3, 2,
        3, 1, 9, 200000>>, TRUE>>, <<67785, <<55, 247, 174, 66, 119, 161, 51, 172>>, 1, 11, 1,
        <<3, 0, 4, 0, 1, 9, 200000>>, TRUE>>, <<68018, <<78, 246, 30, 197, 87, 217, 118, 128>>,
        -431, 8, 1, <<7, 6, 7, 5, 1, 9, 200000>>, TRUE>>, <<68052, <<212, 9, 193, 56, 8, 130,
        81, 109>>, -431, 3, 1, <<2, 6, 3, 6, 1, 9, 0>>, TRUE>>, <<68678, <<186, 243, 78, 143,
        141, 186, 132, 246>>, 0, 16, 1, <<3, 0, 4, 0, 1, 9, 200000>>, TRUE>>, <<68890, <<26, 13,
        17, 246, 39, 111, 43, 75>>, -431, 2, 1, <<7, 4, 7, 3, 1, 9, 200000>>, TRUE>>, <<69166,
        <<210, 241, 142, 93, 186, 144, 230, 214>>, -2147483646, 25, 1, <<2, 3, 1, 3, 3, 9,
        200000>>, TRUE>>, <<70238, <<94, 18, 1, 63, 225, 92, 182, 79>>, -431, 1, 1, <<7, 0, 6,
        0, 1, 9, 929>>, TRUE>>, <<71286, <<138, 233, 14, 20, 19, 58, 182, 156>>, -431, 1, 1,
        <<5, 6, 4, 6, 1, 9, 90000>>, TRUE>>, <<71684, <<252, 231, 94, 207, 31, 221, 28, 238>>,
        -19975, 9, 2, <<7, 0, 6, 0, 1, 9, 200000>>, TRUE>>, <<72050, <<142, 230, 238, 56, 103,
        234, 70, 250>>, -431, 7, 1, <<1, 1, 0, 1, 1, 9, 200000>>, TRUE>>, <<72507, <<197, 228,
        190, 100, 111, 231, 41, 206>>, -2147483646, 1, 1, <<4, 6, 3, 6, 1, 9, 288>>, TRUE>>,
        <<72600, <<104, 228, 238, 178, 33, 189, 140, 180>>, 2147483646, 3, 2, <<4, 3, 3, 3, 1,
        9, 200000>>, TRUE>>, <<73609, <<137, 31, 193, 102, 11, 7, 11, 60>>, 431, 2, 2, <<6, 2,
        6, 1, 1, 9, 200000>>, TRUE>>, <<73953, <<225, 32, 145, 134, 139, 35, 176, 71>>, 0, 1, 2,
        <<1, 0, 2, 0, 1, 9, 5177>>, TRUE>>, <<74345, <<105, 34, 145, 32, 20, 93, 163, 109>>,
        -19975, 10, 2, <<2, 3, 1, 3, 3, 9, 200000>>, TRUE>>, <<75200, <<192, 37, 241, 143, 244,
        172, 94, 92>>, -2147483646, 2, 1, <<2, 6, 2, 5, 3, 9, 200000>>, TRUE>>, <<76046, <<242,
        214, 142, 17, 241, 153, 78, 215>>, -19991, 8, 2, <<1, 3, 0, 3, 3, 9, 200000>>, TRUE>>,
        <<76194, <<94, 214, 46, 37, 4, 145, 216, 196>>, -19987, 23, 2, <<1, 6, 2, 6, 1, 9,
        200000>>, TRUE>>, <<76490, <<202, 42, 33, 171, 94, 239, 196, 80>>, -2147483646, 25, 1,
        <<2, 3, 1, 3, 3, 9, 200000>>, TRUE>>, <<76757, <<213, 43, 113, 157, 20, 11, 89, 61>>,
        -1, 2, 2, <<5, 0, 4, 0, 3, 9, 200000>>, TRUE>>, <<77280, <<32, 210, 14, 0, 227, 76, 58,
        143>>, 431, 11, 2, <<7, 4, 7, 3, 3, 9, 200000>>, TRUE>>, <<77790, <<34, 208, 30, 20, 96,
        2, 105, 247>>, 0, 2, 2, <<4, 0, 3, 0, 3, 9, 61>>, TRUE>>, <<78606, <<14, 51, 161, 97,
        105, 209, 70, 28>>, 2147483646, 6, 2, <<0, 6, 0, 5, 1, 9, 200000>>, TRUE>>, <<79157,
        <<53, 53, 241, 69, 201, 39, 3, 65>>, 431, 4, 2, <<6, 1, 6, 0, 1, 9, 200000>>, TRUE>>,
        <<79415, <<55, 54, 17, 220, 75, 139, 228, 51>>, -19975, 8, 2, <<2, 1, 2, 2, 3, 9,
        200000>>, TRUE>>, <<79746, <<126, 200, 62, 83, 4, 141, 156, 223>>, -431, 3, 1, <<2, 6,
        3, 6, 1, 9, 200000>>, TRUE>>, <<79803, <<69, 200, 158, 174, 45, 244, 242, 168>>,
        2147483646, 4, 2, <<3, 3, 2, 3, 3, 9, 200000>>, TRUE>>, <<79984, <<112, 56, 177, 146,
        28, 175, 181, 106>>, -431, 13, 1, <<6, 0, 5, 0, 1, 9, 200000>>, TRUE>>, <<80220, <<92,
        57, 17, 153, 45, 200, 28, 108>>, -19991, 23, 2, <<1, 3, 0, 3, 3, 9, 200000>>, TRUE>>,
        <<80587, <<53, 197, 142, 195, 224, 140, 158, 195>>, 1, 9, 1, <<2, 0, 1, 0, 1, 9,
        90000>>, TRUE>>, <<81302, <<150, 61, 65, 206, 131, 149, 100, 124>>, -431, 7, 1, <<0, 0,
        0, 1, 1, 9, 200000>>, TRUE>>, <<81541, <<123, 193, 126, 134, 211, 209, 66, 148>>,
        2147483646, 12, 2, <<3, 3, 2, 3, 3, 9, 200000>>, TRUE>>, <<81734, <<70, 63, 225, 175,
        254, 86, 13, 45>>, -2147483646, 1, 1, <<0, 1, 0, 2, 3, 9, 200000>>, TRUE>>, <<82082,
        <<94, 191, 206, 33, 231, 248, 18, 194>>, -431, 3, 1, <<3, 6, 4, 6, 1, 9, 200000>>,
        TRUE>>, <<82232, <<56, 65, 177, 233, 85, 156, 17, 33>>, -431, 19, 1, <<1, 0, 0, 0, 1, 9,
        200000>>, TRUE>>, <<82422, <<246, 65, 193, 209, 180, 196, 97, 73>>, -431, 6, 1, <<7, 5,
        7, 4, 1, 9, 200000>>, TRUE>>, <<82505, <<73, 66, 177, 200, 5, 255, 35, 117>>, 431, 4, 2,
        <<4, 6, 3, 6, 1, 9, 200000>>, TRUE>>, <<82712, <<24, 67, 241, 176, 62, 217, 91, 51>>,
        -19991, 27, 2, <<2, 1, 2, 0, 1, 9, 200000>>, TRUE>>, <<82929, <<241, 67, 33, 50, 175,
        222, 68, 123>>, -2147483646, 22, 1, <<1, 3, 1, 2, 1, 9, 200000>>, TRUE>>, <<82936, <<8,
        188, 78, 154, 129, 188, 86, 219>>, -431, 16, 2, <<0, 6, 0, 5, 1, 9, 200000>>, TRUE>>,
        <<83520, <<64, 70, 241, 83, 185, 28, 193, 75>>, -2147483646, 17, 1, <<3, 3, 2, 3, 3, 9,
        200000>>, TRUE>>, <<83737, <<231, 184, 14, 228, 223, 20, 11, 175>>, -2147483646, 2, 1,
        <<8, 1, 7, 1, 1, 9, 200000>>, TRUE>>, <<83744, <<224, 184, 174, 42, 19, 201, 110, 246>>,
        432, 6, 1, <<3, 3, 2, 3, 3, 9, 200000>>, TRUE>>, <<83786, <<74, 71, 193, 159, 66, 147,
        216, 125>>, 431, 2, 2, <<5, 0, 6, 0, 3, 9, 59>>, TRUE>>, <<84061, <<93, 72, 177, 57,
        177, 223, 150, 102>>, -431, 1, 1, <<6, 0, 5, 0, 3, 9, 186>>, TRUE>>, <<85022, <<226,
        179, 174, 163, 71, 157, 107, 234>>, 431, 21, 2, <<5, 3, 6, 3, 3, 9, 200000>>, TRUE>>,
        <<85314, <<66, 77, 241, 218, 237, 72, 196, 87>>, 19970, 6, 1, <<5, 3, 6, 3, 3, 9,
        97555>>, TRUE>>, <<85342, <<94, 77, 65, 192, 2, 115, 90, 123>>, 0, 10, 1, <<4, 0, 3, 0,
        1, 9, 200000>>, TRUE>>, <<85439, <<191, 77, 81, 255, 199, 51, 65, 9>>, -19987, 16, 2,
        <<0, 2, 0, 3, 3, 9, 200000>>, TRUE>>, <<85859, <<99, 79, 241, 118, 87, 224, 186, 25>>,
        431, 4, 2, <<8, 6, 8, 5, 1, 9, 200000>>, TRUE>>, <<85917, <<157, 79, 65, 179, 12, 217,
        203, 114>>, -431, 6, 1, <<3, 0, 2, 0, 3, 9, 200000>>, TRUE>>, <<86663, <<135, 82, 145,
        62, 74, 224, 83, 81>>, 431, 9, 2, <<2, 6, 1, 6, 1, 9, 200000>>, TRUE>>, <<87691, <<139,
        86, 1, 222, 209, 96, 238, 9>>, -431, 2, 1, <<7, 4, 7, 3, 3, 9, 200000>>, TRUE>>,
        <<88628, <<204, 165, 206, 80, 182, 130, 212, 151>>, 431, 23, 2, <<4, 3, 5, 3, 3, 9,
        200000>>, TRUE>>, <<88641, <<191, 165, 78, 194, 176, 59, 194, 163>>, -431, 10, 1, <<2,
        0, 1, 0, 3, 9, 200000>>, TRUE>>, <<88927, <<161, 164, 158, 249, 115, 171, 254, 234>>,
        432, 9, 1, <<6, 6, 7, 6, 1, 9, 90000>>, TRUE>>, <<89168, <<176, 163, 126, 168, 125, 203,
        152, 169>>, -2147483646, 1, 1, <<2, 6, 2, 5, 3, 9, 200000>>, TRUE>>, <<89387, <<43, 93,
        65, 245, 92, 93, 39, 13>>, 431, 10, 2, <<5, 6, 4, 6, 1, 9, 200000>>, TRUE>>, <<90967,
        <<87, 99, 81, 17, 45, 241, 200, 104>>, -2147483646, 17, 1, <<2, 4, 1, 4, 1, 9, 200000>>,
        TRUE>>, <<92427, <<245, 150, 14, 225, 211, 112, 98, 201>>, 431, 20, 2, <<2, 4, 2, 3, 1,
        9, 200000>>, TRUE>>, <<92505, <<167, 150, 254, 9, 35, 76, 99, 143>>, -19983, 12, 2, <<0,
        2, 0, 3, 3, 9, 200000>>, TRUE>>, <<93423, <<239, 108, 49, 115, 248, 11, 145, 0>>, -431,
        11, 1, <<2, 1, 2, 2, 3, 9, 200000>>, TRUE>>, <<94498, <<34, 113, 129, 145, 144, 49, 148,
        109>>, -431, 10, 1, <<4, 6, 5, 6, 1, 9, 200000>>, TRUE>>, <<95023, <<209, 140, 254, 115,
        83, 200, 36, 251>>, -2147483646, 3, 1, <<6, 0, 5, 0, 1, 9, 90000>>, TRUE>>, <<95388,
        <<156, 116, 65, 115, 97, 230, 31, 39>>, 1, 8, 1, <<7, 1, 8, 1, 3, 9, 200000>>, TRUE>>,
        <<95630, <<142, 117, 209, 134, 41, 113, 172, 78>>, -19975, 15, 2, <<4, 0, 5, 0, 1, 9,
        200000>>, TRUE>>, <<96101, <<155, 136, 14, 199, 144, 222, 4, 148>>, -431, 2, 1, <<5, 0,
        4, 0, 3, 9, 90000>>, TRUE>>, <<96562, <<50, 121, 193, 191, 227, 73, 0, 79>>, 19972, 1,
        1, <<8, 4, 8, 3, 1, 9, 38>>, TRUE>>, <<97727, <<191, 125, 33, 114, 25, 82, 183, 21>>,
        19970, 3, 1, <<8, 4, 8, 3, 1, 9, 200000>>, TRUE>>, <<98004, <<212, 126, 97, 166, 82,
        253, 246, 17>>, -2147483646, 29, 1, <<4, 3, 5, 3, 3, 9, 200000>>, TRUE>>, <<98928,
        <<144, 125, 238, 158, 20, 31, 230, 197>>, -1, 3, 2, <<0, 0, 0, 1, 1, 9, 200000>>,
        TRUE>>, <<99164, <<164, 124, 110, 221, 181, 252, 176, 211>>, 431, 1, 2, <<4, 6, 3, 6, 3,
        9, 90000>>, TRUE>>, <<99184, <<112, 131, 209, 239, 143, 11, 152, 30>>, 431, 19, 2, <<3,
        3, 4, 3, 3, 9, 200000>>, TRUE>>, <<99185, <<143, 124, 190, 168, 94, 251, 123, 168>>,
        -2147483646, 24, 1, <<0, 1, 0, 2, 1, 9, 200000>>, TRUE>>, <<99750, <<166, 133, 241, 204,
        107, 70, 0, 62>>, 431, 5, 2, <<6, 6, 5, 6, 3, 9, 200000>>, TRUE>>, <<99809, <<31, 122,
        78, 7, 241, 94, 228, 226>>, 2147483646, 4, 2, <<3, 6, 2, 6, 3, 9, 200000>>, TRUE>>,
        <<100654, <<210, 118, 142, 31, 113, 138, 50, 191>>, -2147483646, 4, 1, <<5, 3, 6, 3, 3,
        9, 200000>>, TRUE>>, <<100871, <<249, 117, 222, 116, 63, 241, 173, 154>>, -2147483646,
        19, 1, <<2, 3, 1, 3, 1, 9, 200000>>, TRUE>>, <<101021, <<157, 138, 49, 1, 142, 239, 137,
        43>>, -431, 14, 1, <<6, 3, 5, 3, 3, 9, 200000>>, TRUE>>, <<101253, <<133, 139, 113, 96,
        161, 72, 51, 109>>, 431, 6, 2, <<3, 3, 2, 3, 1, 9, 200000>>, TRUE>>, <<102540, <<140,
        144, 97, 64, 193, 72, 85, 106>>, 0, 14, 1, <<4, 0, 3, 0, 1, 9, 200000>>, TRUE>>,
        <<102943, <<31, 146, 17, 163, 212, 194, 145, 38>>, -431, 1, 1, <<5, 3, 4, 3, 3, 9,
        71856>>, TRUE>>, <<103342, <<82, 108, 190, 39, 28, 57, 168, 222>>, -431, 1, 1, <<7, 6,
        7, 5, 1, 9, 317>>, TRUE>>, <<103469, <<211, 107, 222, 205, 131, 129, 219, 132>>, -431,
        4, 1, <<8, 5, 8, 4, 3, 9, 200000>>, TRUE>>, <<104230, <<218, 104, 158, 215, 32, 39, 171,
        129>>, 19984, 15, 2, <<2, 2, 1, 2, 1, 9, 200000>>, TRUE>>, <<104461, <<243, 103, 190,
        118, 118, 30, 164, 215>>, 1, 7, 1, <<3, 0, 4, 0, 1, 9, 6985>>, TRUE>>, <<104515, <<189,
        103, 78, 83, 42, 67, 59, 135>>, -431, 1, 1, <<3, 3, 2, 3, 3, 9, 200000>>, TRUE>>,
        <<104592, <<144, 152, 145, 197, 164, 173, 151, 33>>, 431, 19, 2, <<7, 4, 7, 3, 3, 9,
        200000>>, TRUE>>, <<104787, <<83, 153, 225, 15, 220, 203, 11, 106>>, 19968, 3, 1, <<7,
        4, 7, 3, 1, 9, 80000>>, TRUE>>, <<105244, <<228, 100, 94, 79, 114, 8, 109, 137>>, 431,
        15, 2, <<2, 4, 2, 5, 3, 9, 200000>>, TRUE>>, <<105501, <<29, 156, 113, 8, 94, 182, 32,
        123>>, 0, 5, 1, <<6, 4, 6, 3, 3, 9, 200000>>, TRUE>>, <<105556, <<172, 99, 30, 80, 167,
        141, 129, 222>>, -432, 1, 2, <<2, 5, 2, 6, 1, 9, 4>>, TRUE>>, <<107306, <<42, 163, 49,
        135, 179, 84, 177, 1>>, -431, 1, 1, <<5, 6, 4, 6, 1, 9, 5006>>, TRUE>>, <<108050, <<18,
        166, 145, 79, 132, 232, 207, 30>>, 2147483646, 4, 2, <<1, 4, 1, 5, 1, 9, 200000>>,
        TRUE>>, <<108912, <<112, 169, 97, 188, 44, 40, 102, 51>>, 2147483646, 9, 2, <<2, 2, 2,
        1, 1, 9, 200000>>, TRUE>>, <<110393, <<199, 80, 46, 9, 50, 67, 54, 198>>, -2147483646,
        15, 1, <<2, 5, 1, 5, 1, 9, 200000>>, TRUE>>, <<110838, <<10, 79, 254, 152, 9, 69, 33,
        182>>, -431, 3, 1, <<2, 1, 2, 2, 1, 9, 200000>>, TRUE>>, <<111057, <<47, 78, 174, 172,
        38, 142, 58, 251>>, 2147483646, 7, 2, <<5, 3, 4, 3, 3, 9, 200000>>, TRUE>>, <<112368,
        <<16, 73, 174, 243, 173, 177, 11, 182>>, 432, 7, 1, <<0, 0, 0, 1, 3, 9, 3255>>, TRUE>>,
        <<112734, <<94, 184, 1, 40, 97, 64, 94, 37>>, 431, 7, 2, <<7, 6, 6, 6, 3, 9, 200000>>,
        TRUE>>, <<113006, <<146, 70, 238, 45, 170, 63, 26, 130>>, -19987, 23, 2, <<2, 3, 2, 2,
        1, 9, 200000>>, TRUE>>, <<113215, <<193, 69, 254, 188, 111, 223, 52, 195>>, -431, 6, 1,
        <<6, 3, 7, 3, 3, 9, 200000>>, TRUE>>, <<113549, <<141, 187, 241, 92, 216, 15, 144, 90>>,
        -431, 17, 2, <<3, 3, 2, 3, 3, 9, 200000>>, TRUE>>, <<113818, <<102, 67, 142, 247, 185,
        5, 115, 227>>, -2147483646, 1, 1, <<1, 6, 2, 6, 3, 9, 200000>>, TRUE>>, <<114254, <<178,
        65, 238, 149, 58, 137, 243, 139>>, 1, 8, 1, <<7, 5, 8, 5, 3, 9, 200000>>, TRUE>>,
        <<114489, <<57, 191, 193, 155, 186, 149, 135, 45>>, 431, 26, 2, <<1, 0, 0, 0, 1, 9,
        200000>>, TRUE>>, <<115140, <<60, 62, 126, 224, 193, 136, 24, 186>>, -2147483646, 2, 1,
        <<2, 4, 2, 3, 3, 9, 26118>>, TRUE>>, <<115395, <<195, 194, 97, 216, 199, 252, 24, 63>>,
        1, 9, 1, <<4, 0, 3, 0, 1, 9, 200000>>, TRUE>>, <<115443, <<243, 194, 17, 232, 109, 235,
        16, 103>>, 432, 11, 1, <<5, 6, 6, 6, 1, 9, 90000>>, TRUE>>, <<115729, <<239, 59, 30, 47,
        218, 139, 45, 152>>, -19979, 9, 2, <<1, 3, 0, 3, 3, 9, 200000>>, TRUE>>, <<117110,
        <<138, 54, 110, 51, 187, 173, 221, 163>>, -431, 3, 1, <<0, 5, 1, 5, 1, 9, 200000>>,
        TRUE>>, <<117426, <<78, 53, 30, 177, 26, 84, 102, 233>>, 0, 13, 2, <<6, 2, 6, 3, 3, 9,
        200000>>, TRUE>>, <<118224, <<48, 50, 158, 122, 134, 202, 201, 215>>, 431, 8, 2, <<4, 0,
        3, 0, 3, 9, 200000>>, TRUE>>, <<118242, <<30, 50, 126, 110, 64, 100, 65, 213>>, -19981,
        13, 2, <<7, 2, 7, 1, 3, 1, 200000>>, TRUE>>, <<118265, <<7, 50, 142, 254, 65, 182, 106,
        249>>, -2147483646, 3, 1, <<0, 5, 1, 5, 1, 9, 200000>>, TRUE>>, <<118853, <<69, 208, 17,
        174, 61, 111, 252, 24>>, -431, 10, 1, <<6, 3, 7, 3, 3, 9, 200000>>, TRUE>>, <<118989,
        <<51, 47, 30, 64, 220, 233, 47, 146>>, 0, 3, 2, <<2, 0, 3, 0, 1, 9, 90000>>, TRUE>>,
        <<119059, <<237, 46, 78, 93, 153, 160, 5, 215>>, -2147483646, 2, 1, <<1, 1, 0, 1, 1, 9,
        200000>>, TRUE>>, <<119117, <<179, 46, 14, 238, 105, 62, 0, 190>>, -431, 3, 1, <<8, 2,
        7, 2, 3, 9, 200000>>, TRUE>>, <<119521, <<225, 210, 129, 136, 72, 109, 33, 30>>, -431,
        10, 1, <<7, 2, 7, 3, 3, 9, 200000>>, TRUE>>, <<119924, <<116, 212, 97, 136, 22, 16, 75,
        1>>, -431, 3, 1, <<8, 5, 7, 5, 1, 9, 200000>>, TRUE>>, <<120000, <<192, 212, 97, 130,
        119, 228, 147, 80>>, 2147483646, 1, 2, <<2, 0, 3, 0, 1, 9, 29707>>, TRUE>>, <<120345,
        <<231, 41, 206, 212, 106, 16, 101, 198>>, 431, 16, 2, <<0, 2, 0, 1, 1, 9, 200000>>,
        TRUE>>, <<121420, <<76, 218, 33, 13, 51, 13, 162, 65>>, -431, 3, 1, <<1, 6, 1, 5, 1, 9,
        200000>>, TRUE>>, <<121568, <<224, 218, 129, 57, 198, 5, 52, 82>>, 0, 17, 2, <<6, 2, 6,
        3, 3, 9, 200000>>, TRUE>>, <<121925, <<69, 220, 145, 36, 148, 145, 207, 103>>, 431, 22,
        2, <<0, 2, 0, 1, 1, 9, 200000>>, TRUE>>, <<122597, <<27, 33, 174, 106, 91, 108, 103,
        171>>, -431, 8, 1, <<2, 6, 2, 5, 3, 9, 200000>>, TRUE>>, <<122817, <<193, 223, 193, 242,
        218, 46, 38, 1>>, -2147483646, 13, 1, <<2, 5, 1, 5, 1, 9, 200000>>, TRUE>>, <<122894,
        <<14, 224, 65, 9, 156, 72, 46, 46>>, -431, 1, 1, <<7, 0, 6, 0, 1, 9, 90000>>, TRUE>>,
        <<123080, <<200, 224, 49, 163, 28, 211, 39, 8>>, -431, 1, 1, <<5, 3, 4, 3, 1, 9, 1031>>,
        TRUE>>, <<123265, <<129, 225, 97, 40, 153, 57, 74, 21>>, 432, 11, 1, <<5, 6, 6, 6, 1, 9,
        90000>>, TRUE>>, <<125050, <<122, 232, 225, 154, 22, 33, 246, 49>>, -431, 3, 1, <<4, 3,
        3, 3, 1, 9, 200000>>, TRUE>>, <<125778, <<82, 235, 129, 175, 203, 76, 116, 78>>, 431, 5,
        2, <<5, 0, 4, 0, 3, 9, 90000>>, TRUE>>, <<126041, <<89, 236, 113, 185, 246, 128, 64,
        43>>, 2147483646, 6, 2, <<2, 2, 1, 2, 3, 9, 200000>>, TRUE>>, <<126371, <<163, 237, 81,
        234, 10, 230, 29, 113>>, -431, 4, 1, <<8, 5, 8, 4, 3, 9, 200000>>, TRUE>>, <<126960,
        <<16, 16, 14, 170, 8, 99, 250, 232>>, 2147483646, 7, 2, <<6, 4, 6, 3, 1, 9, 200000>>,
        TRUE>>, <<126965, <<245, 239, 49, 166, 62, 30, 241, 6>>, -2147483646, 2, 1, <<1, 2, 2,
        2, 1, 9, 200000>>, TRUE>>, <<127328, <<96, 241, 177, 93, 32, 184, 165, 82>>, 431, 3, 2,
        <<2, 4, 2, 3, 3, 9, 90000>>, TRUE>>, <<127369, <<119, 14, 78, 128, 236, 169, 213, 231>>,
        -2147483646, 1, 1, <<0, 4, 1, 4, 1, 9, 23779>>, TRUE>>, <<127523, <<35, 242, 49, 186,
        110, 74, 100, 15>>, 431, 1, 2, <<2, 2, 2, 3, 1, 9, 200000>>, TRUE>>, <<127881, <<137,
        243, 81, 83, 182, 150, 107, 111>>, -2147483646, 28, 1, <<0, 1, 0, 2, 1, 9, 200000>>,
        TRUE>>, <<128104, <<152, 11, 142, 122, 245, 242, 22, 188>>, -431, 3, 2, <<1, 0, 1, 1, 1,
        9, 200000>>, TRUE>>, <<128262, <<250, 10, 174, 77, 22, 178, 98, 189>>, -431, 3, 1, <<0,
        4, 1, 4, 1, 9, 200000>>, TRUE>>, <<128501, <<245, 245, 225, 171, 125, 223, 39, 81>>,
        431, 1, 2, <<0, 0, 0, 1, 1, 9, 90000>>, TRUE>>, <<128989, <<221, 247, 81, 40, 235, 142,
        250, 5>>, 431, 12, 2, <<8, 0, 8, 1, 1, 9, 200000>>, TRUE>>, <<130832, <<16, 255, 1, 103,
        95, 82, 34, 23>>, -19971, 5, 2, <<1, 2, 1, 3, 3, 9, 200000>>, TRUE>>, <<131309, <<19,
        255, 109, 224, 102, 186, 231, 240>>, -431, 19, 2, <<2, 5, 2, 4, 3, 9, 200000>>, TRUE>>,
        <<131424, <<160, 254, 157, 150, 56, 48, 211, 168>>, 0, 2, 2, <<6, 0, 7, 0, 3, 9, 0>>,
        TRUE>>, <<131460, <<132, 1, 130, 128, 140, 145, 53, 30>>, -2147483646, 21, 1, <<1, 2, 0,
        2, 3, 9, 200000>>, TRUE>>, <<131713, <<129, 2, 130, 80, 239, 142, 205, 57>>,
        -2147483646, 18, 1, <<0, 0, 0, 1, 1, 9, 200000>>, TRUE>>, <<132437, <<171, 250, 29, 35,
        47, 198, 160, 155>>, -2147483646, 2, 1, <<1, 2, 2, 2, 1, 9, 200000>>, TRUE>>, <<133166,
        <<210, 247, 77, 224, 151, 56, 69, 169>>, -431, 1, 1, <<8, 0, 8, 1, 1, 9, 0>>, TRUE>>,
        <<134643, <<243, 13, 210, 89, 232, 97, 151, 105>>, -431, 2, 1, <<1, 0, 1, 1, 3, 9,
        2084>>, TRUE>>, <<135055, <<113, 240, 157, 19, 206, 122, 78, 221>>, 19984, 6, 2, <<0, 0,
        0, 1, 3, 9, 200000>>, TRUE>>, <<135185, <<17, 16, 82, 92, 79, 227, 35, 88>>,
        -2147483646, 2, 1, <<1, 6, 1, 5, 1, 9, 200000>>, TRUE>>, <<135357, <<189, 16, 242, 104,
        186, 235, 181, 75>>, 2147483646, 8, 2, <<2, 5, 2, 6, 3, 9, 200000>>, TRUE>>, <<135577,
        <<103, 238, 237, 200, 177, 165, 179, 242>>, 19984, 16, 2, <<1, 1, 0, 1, 3, 9, 200000>>,
        TRUE>>, <<136453, <<5, 21, 130, 171, 243, 151, 242, 32>>, -2147483646, 1, 1, <<1, 4, 1,
        3, 1, 9, 384>>, TRUE>>, <<136603, <<155, 21, 226, 236, 101, 6, 254, 115>>, 0, 11, 1,
        <<6, 6, 5, 6, 3, 9, 200000>>, TRUE>>, <<136670, <<34, 234, 93, 39, 255, 30, 26, 175>>,
        -2147483646, 1, 1, <<3, 6, 2, 6, 3, 9, 200000>>, TRUE>>, <<136711, <<249, 233, 205, 67,
        158, 64, 40, 152>>, 19970, 3, 1, <<8, 4, 8, 3, 1, 9, 200000>>, TRUE>>, <<137342, <<126,
        24, 18, 98, 205, 205, 6, 88>>, -431, 1, 1, <<4, 3, 3, 3, 1, 9, 183>>, TRUE>>, <<138029,
        <<45, 27, 18, 66, 100, 209, 170, 67>>, 2147483646, 2, 2, <<2, 6, 2, 5, 3, 9, 200000>>,
        TRUE>>, <<138560, <<64, 29, 162, 242, 170, 228, 35, 11>>, -2147483646, 1, 1, <<0, 5, 0,
        4, 3, 9, 449>>, TRUE>>, <<139065, <<199, 224, 45, 107, 96, 101, 152, 164>>, 431, 5, 2,
        <<5, 3, 4, 3, 1, 9, 200000>>, TRUE>>, <<139465, <<55, 223, 237, 184, 7, 5, 223, 251>>,
        1, 13, 1, <<2, 0, 1, 0, 1, 9, 200000>>, TRUE>>, <<139720, <<200, 33, 34, 251, 196, 117,
        88, 5>>, -431, 2, 1, <<7, 1, 6, 1, 1, 9, 200000>>, TRUE>>, <<139771, <<5, 222, 189, 62,
        230, 184, 127, 233>>, -431, 5, 1, <<2, 3, 3, 3, 3, 9, 200000>>, TRUE>>, <<139815, <<39,
        34, 146, 203, 106, 207, 119, 40>>, -2147483646, 1, 1, <<4, 3, 3, 3, 1, 9, 90000>>,
        TRUE>>, <<139829, <<203, 221, 13, 192, 206, 194, 121, 129>>, -2147483646, 18, 1, <<2, 4,
        2, 3, 1, 9, 200000>>, TRUE>>, <<140903, <<153, 217, 45, 166, 11, 241, 239, 191>>,
        -2147483646, 22, 1, <<1, 1, 0, 1, 1, 9, 200000>>, TRUE>>, <<141713, <<111, 214, 205,
        145, 201, 61, 141, 195>>, -431, 18, 1, <<2, 2, 2, 3, 3, 9, 200000>>, TRUE>>, <<142715,
        <<123, 45, 18, 242, 0, 22, 10, 121>>, -2147483646, 17, 1, <<3, 6, 4, 6, 1, 9, 200000>>,
        TRUE>>, <<142917, <<187, 209, 173, 55, 67, 236, 238, 234>>, -2147483646, 2, 1, <<1, 6,
        1, 5, 1, 9, 200000>>, TRUE>>, <<143081, <<23, 209, 13, 3, 182, 228, 120, 249>>, 19984,
        14, 2, <<0, 1, 0, 2, 3, 9, 200000>>, TRUE>>, <<143461, <<155, 207, 189, 65, 67, 240,
        170, 241>>, -2147483646, 18, 1, <<2, 6, 3, 6, 1, 9, 200000>>, TRUE>>, <<143656, <<216,
        206, 189, 177, 164, 122, 172, 159>>, 431, 4, 2, <<1, 5, 2, 5, 3, 9, 115>>, TRUE>>,
        <<143708, <<164, 206, 93, 193, 112, 135, 85, 158>>, -2147483646, 11, 1, <<1, 2, 1, 3, 3,
        9, 200000>>, TRUE>>, <<144636, <<4, 203, 109, 12, 12, 74, 221, 174>>, -1, 2, 2, <<5, 0,
        4, 0, 1, 9, 90000>>, TRUE>>, <<145403, <<251, 55, 114, 52, 10, 62, 221, 43>>, -19975,
        10, 2, <<2, 4, 2, 3, 3, 9, 200000>>, TRUE>>, <<145571, <<163, 56, 98, 189, 185, 43, 59,
        3>>, -19987, 22, 2, <<1, 3, 0, 3, 3, 9, 200000>>, TRUE>>, <<145856, <<64, 198, 13, 34,
        172, 105, 198, 222>>, 431, 15, 2, <<7, 3, 7, 2, 3, 9, 200000>>, TRUE>>, <<146541, <<147,
        195, 77, 59, 185, 126, 229, 200>>, -2147483646, 2, 1, <<3, 6, 4, 6, 1, 9, 1914>>,
        TRUE>>, <<146997, <<53, 62, 146, 139, 184, 179, 209, 12>>, 2147483646, 8, 2, <<3, 3, 2,
        3, 3, 9, 200000>>, TRUE>>, <<147129, <<185, 62, 146, 139, 106, 181, 42, 66>>, -19987,
        14, 2, <<0, 1, 0, 2, 3, 9, 200000>>, TRUE>>, <<147899, <<69, 190, 45, 127, 92, 57, 156,
        249>>, -431, 6, 1, <<8, 4, 8, 5, 3, 9, 200000>>, TRUE>>, <<147975, <<7, 66, 194, 199,
        135, 236, 113, 76>>, -19991, 18, 2, <<1, 4, 1, 3, 3, 9, 200000>>, TRUE>>, <<148203,
        <<235, 66, 2, 252, 158, 69, 18, 88>>, 2147483646, 3, 2, <<7, 3, 6, 3, 3, 9, 200000>>,
        TRUE>>, <<148733, <<253, 68, 114, 162, 121, 164, 109, 29>>, -2147483646, 10, 1, <<2, 1,
        2, 2, 1, 9, 200000>>, TRUE>>, <<149672, <<168, 72, 50, 150, 45, 29, 106, 106>>,
        -2147483646, 2, 1, <<1, 5, 1, 4, 3, 9, 200000>>, TRUE>>, <<150162, <<110, 181, 205, 233,
        246, 30, 175, 251>>, -431, 6, 1, <<7, 5, 7, 4, 1, 9, 200000>>, TRUE>>, <<150338, <<66,
        75, 2, 90, 13, 129, 33, 100>>, -431, 4, 1, <<1, 6, 1, 5, 1, 9, 200000>>, TRUE>>,
        <<150510, <<238, 75, 162, 110, 248, 137, 183, 119>>, 431, 1, 2, <<2, 0, 1, 0, 3, 9,
        90000>>, TRUE>>, <<151811, <<3, 81, 82, 197, 14, 213, 111, 46>>, -431, 5, 1, <<4, 3, 3,
        3, 3, 9, 112222>>, TRUE>>, <<152337, <<239, 172, 157, 14, 62, 132, 158, 253>>, -431, 22,
        1, <<7, 2, 8, 2, 3, 9, 200000>>, TRUE>>, <<152577, <<255, 171, 173, 166, 48, 117, 199,
        249>>, -431, 16, 1, <<1, 2, 1, 3, 3, 9, 200000>>, TRUE>>, <<153144, <<56, 86, 162, 114,
        168, 221, 34, 126>>, -2147483646, 1, 1, <<3, 6, 2, 6, 3, 9, 882>>, TRUE>>, <<154560,
        <<64, 164, 61, 230, 36, 216, 229, 204>>, 431, 5, 2, <<2, 0, 3, 0, 3, 9, 0>>, TRUE>>,
        <<155587, <<61, 160, 109, 79, 241, 246, 237, 179>>, 19970, 3, 1, <<7, 3, 8, 3, 1, 9,
        90000>>, TRUE>>, <<156264, <<104, 98, 98, 156, 155, 27, 216, 54>>, -19971, 4, 2, <<0, 2,
        0, 3, 3, 9, 120418>>, TRUE>>, <<156808, <<136, 100, 82, 28, 38, 104, 58, 66>>, 0, 6, 1,
        <<0, 0, 1, 0, 1, 9, 200000>>, TRUE>>, <<157021, <<93, 101, 130, 137, 184, 70, 190,
        127>>, -431, 6, 1, <<8, 4, 8, 5, 3, 9, 200000>>, TRUE>>, <<157348, <<92, 153, 253, 199,
        160, 125, 180, 198>>, -431, 7, 1, <<7, 4, 7, 5, 1, 9, 200000>>, TRUE>>, <<157365, <<75,
        153, 109, 148, 10, 254, 144, 251>>, 431, 4, 2, <<5, 0, 6, 0, 1, 9, 200000>>, TRUE>>,
        <<157407, <<223, 102, 50, 187, 233, 237, 44, 57>>, -431, 3, 1, <<4, 0, 3, 0, 3, 9,
        200000>>, TRUE>>, <<157577, <<119, 152, 61, 75, 186, 209, 95, 178>>, -431, 7, 1, <<1, 0,
        1, 1, 3, 9, 200000>>, TRUE>>, <<157692, <<252, 103, 162, 190, 10, 168, 27, 123>>, -431,
        19, 1, <<3, 0, 4, 0, 1, 9, 200000>>, TRUE>>, <<158180, <<28, 150, 189, 41, 2, 204, 245,
        137>>, -431, 2, 1, <<7, 5, 7, 4, 1, 9, 200000>>, TRUE>>, <<158359, <<105, 149, 109, 26,
        139, 18, 201, 148>>, -2147483646, 2, 1, <<7, 1, 6, 1, 1, 9, 200000>>, TRUE>>, <<158653,
        <<67, 148, 237, 97, 48, 221, 95, 178>>, -431, 17, 2, <<2, 2, 2, 3, 3, 9, 200000>>,
        TRUE>>, <<159126, <<150, 109, 194, 235, 32, 175, 241, 54>>, -19987, 19, 2, <<1, 5, 2, 5,
        3, 1, 200000>>, TRUE>>, <<159230, <<254, 109, 50, 2, 242, 244, 217, 66>>, 431, 5, 2,
        <<8, 4, 8, 5, 3, 9, 200000>>, TRUE>>, <<159455, <<223, 110, 162, 155, 228, 84, 96, 41>>,
        -431, 3, 1, <<7, 3, 6, 3, 3, 9, 97555>>, TRUE>>, <<159934, <<66, 143, 205, 154, 118, 14,
        35, 235>>, -431, 2, 1, <<6, 2, 6, 1, 1, 9, 200000>>, TRUE>>, <<161699, <<163, 119, 50,
        93, 179, 150, 127, 74>>, -2147483646, 1, 1, <<5, 0, 4, 0, 1, 9, 90000>>, TRUE>>,
        <<162473, <<87, 133, 141, 201, 117, 171, 160, 175>>, -2147483646, 4, 1, <<2, 1, 2, 0, 1,
        9, 200000>>, TRUE>>, <<162829, <<13, 124, 210, 64, 3, 186, 70, 110>>, 432, 3, 1, <<0, 4,
        1, 4, 1, 9, 200000>>, TRUE>>, <<162982, <<90, 131, 61, 213, 69, 89, 76, 186>>, 431, 21,
        2, <<6, 3, 7, 3, 3, 9, 200000>>, TRUE>>, <<164000, <<96, 127, 141, 54, 200, 124, 184,
        194>>, -431, 4, 1, <<7, 4, 7, 5, 1, 9, 200000>>, TRUE>>, <<164517, <<91, 125, 77, 167,
        170, 80, 218, 182>>, 0, 11, 1, <<7, 1, 8, 1, 3, 9, 200000>>, TRUE>>, <<164791, <<73,
        124, 221, 82, 226, 199, 105, 223>>, -2147483646, 10, 1, <<5, 0, 4, 0, 1, 9, 200000>>,
        TRUE>>, <<165761, <<127, 120, 13, 224, 58, 66, 238, 157>>, -2147483646, 18, 1, <<3, 3,
        2, 3, 1, 9, 200000>>, TRUE>>, <<166239, <<95, 137, 114, 11, 172, 72, 93, 124>>, 19968,
        7, 1, <<7, 6, 7, 5, 1, 9, 200000>>, TRUE>>, <<167619, <<61, 113, 189, 142, 253, 191,
        145, 236>>, -431, 2, 1, <<8, 1, 7, 1, 3, 9, 200000>>, TRUE>>, <<168022, <<86, 144, 98,
        208, 60, 135, 92, 46>>, -431, 1, 1, <<2, 5, 1, 5, 1, 9, 30190>>, TRUE>>, <<168095, <<97,
        111, 93, 10, 125, 28, 4, 182>>, -2147483646, 2, 1, <<7, 2, 6, 2, 1, 9, 200000>>, TRUE>>,
        <<168129, <<63, 111, 29, 197, 103, 90, 157, 175>>, -2147483646, 22, 1, <<2, 2, 2, 3, 1,
        9, 200000>>, TRUE>>, <<169851, <<123, 151, 146, 5, 137, 35, 212, 47>>, -2147483646, 18,
        1, <<0, 2, 0, 1, 1, 9, 200000>>, TRUE>>, <<170141, <<157, 152, 34, 178, 164, 110, 19,
        103>>, -2147483646, 1, 1, <<0, 0, 0, 1, 1, 9, 90000>>, TRUE>>, <<170218, <<22, 103, 93,
        212, 150, 135, 210, 210>>, -431, 3, 1, <<8, 0, 7, 0, 1, 9, 200000>>, TRUE>>, <<170545,
        <<49, 154, 162, 177, 107, 187, 74, 106>>, 431, 20, 2, <<0, 4, 1, 4, 1, 9, 200000>>,
        TRUE>>, <<172053, <<21, 160, 66, 169, 97, 36, 209, 108>>, -19979, 11, 2, <<1, 4, 1, 3,
        3, 9, 200000>>, TRUE>>, <<172748, <<204, 162, 130, 2, 60, 191, 66, 46>>, 2147483646, 4,
        2, <<0, 5, 1, 5, 1, 9, 200000>>, TRUE>>, <<173271, <<215, 164, 114, 13, 246, 68, 30,
        92>>, 2147483646, 6, 2, <<1, 1, 1, 0, 3, 9, 200000>>, TRUE>>, <<173811, <<243, 166, 50,
        80, 211, 155, 212, 56>>, -431, 5, 1, <<2, 0, 1, 0, 3, 9, 200000>>, TRUE>>, <<174840,
        <<8, 85, 157, 227, 238, 204, 96, 142>>, -431, 3, 1, <<2, 1, 2, 2, 1, 9, 200000>>,
        TRUE>>, <<174908, <<196, 84, 29, 83, 239, 154, 114, 193>>, 432, 8, 1, <<2, 2, 1, 2, 3,
        9, 200000>>, TRUE>>, <<175915, <<213, 80, 61, 151, 234, 208, 121, 131>>, -431, 1, 1,
        <<0, 0, 1, 0, 3, 9, 200000>>, TRUE>>, <<176387, <<253, 78, 29, 96, 216, 76, 62, 221>>,
        -431, 2, 1, <<7, 2, 7, 3, 3, 9, 200000>>, TRUE>>, <<176917, <<21, 179, 18, 239, 3, 247,
        212, 55>>, 431, 6, 2, <<6, 5, 6, 6, 1, 9, 38>>, TRUE>>, <<177037, <<115, 76, 109, 115,
        130, 221, 83, 157>>, -19983, 1, 1, <<1, 5, 1, 4, 3, 9, 673>>, TRUE>>, <<177388, <<20,
        75, 61, 185, 175, 140, 89, 133>>, -431, 16, 1, <<3, 3, 2, 3, 1, 9, 200000>>, TRUE>>,
        <<177512, <<104, 181, 146, 173, 49, 53, 199, 114>>, -431, 5, 1, <<2, 3, 2, 2, 1, 9,
        200000>>, TRUE>>, <<177683, <<237, 73, 45, 200, 214, 189, 103, 217>>, -431, 24, 2, <<1,
        2, 2, 2, 3, 9, 200000>>, TRUE>>, <<179009, <<191, 68, 109, 116, 107, 25, 99, 214>>, 431,
        6, 2, <<8, 5, 8, 6, 1, 9, 200000>>, TRUE>>, <<179047, <<153, 68, 77, 20, 201, 197, 159,
        234>>, 0, 1, 2, <<5, 0, 4, 0, 1, 9, 2996>>, TRUE>>, <<179557, <<101, 189, 162, 213, 124,
        29, 83, 114>>, 432, 7, 1, <<7, 5, 7, 4, 1, 9, 200000>>, TRUE>>, <<180174, <<50, 64, 141,
        185, 145, 2, 212, 140>>, -431, 1, 1, <<8, 5, 7, 5, 1, 9, 90000>>, TRUE>>, <<180240,
        <<240, 63, 29, 8, 128, 61, 33, 162>>, -2147483646, 2, 1, <<2, 1, 2, 2, 3, 9, 200000>>,
        TRUE>>, <<180302, <<78, 192, 66, 118, 212, 132, 227, 121>>, -431, 2, 1, <<1, 6, 1, 5, 1,
        9, 200000>>, TRUE>>, <<180330, <<106, 192, 34, 22, 205, 151, 26, 74>>, 0, 8, 1, <<3, 0,
        2, 0, 1, 9, 200000>>, TRUE>>, <<180426, <<54, 63, 173, 111, 35, 117, 174, 194>>, -431,
        3, 1, <<6, 3, 6, 2, 1, 9, 200000>>, TRUE>>, <<180450, <<226, 192, 226, 66, 33, 140, 117,
        106>>, 0, 17, 2, <<8, 2, 7, 2, 3, 9, 200000>>, TRUE>>, <<180896, <<96, 61, 173, 181, 34,
        137, 54, 179>>, 0, 14, 1, <<4, 0, 3, 0, 1, 9, 200000>>, TRUE>>, <<181238, <<10, 60, 157,
        61, 157, 246, 27, 182>>, 432, 10, 1, <<0, 1, 0, 2, 3, 9, 200000>>, TRUE>>, <<181266,
        <<18, 196, 210, 66, 71, 225, 73, 66>>, 2147483646, 15, 2, <<3, 3, 4, 3, 1, 9, 200000>>,
        TRUE>>, <<183119, <<177, 52, 109, 149, 142, 183, 65, 134>>, 2147483646, 1, 2, <<6, 2, 7,
        2, 3, 9, 200000>>, TRUE>>, <<183528, <<24, 51, 29, 138, 184, 82, 1, 135>>, -431, 5, 1,
        <<0, 1, 0, 0, 1, 9, 200000>>, TRUE>>, <<183603, <<205, 50, 205, 31, 38, 124, 133, 186>>,
        -1, 3, 2, <<6, 1, 7, 1, 3, 9, 75>>, TRUE>>, <<184500, <<76, 47, 125, 202, 253, 221, 39,
        209>>, 431, 9, 2, <<8, 2, 7, 2, 3, 9, 200000>>, TRUE>>, <<185012, <<180, 210, 146, 116,
        102, 253, 180, 52>>, -2147483646, 2, 1, <<2, 2, 1, 2, 3, 9, 200000>>, TRUE>>, <<185125,
        <<37, 211, 226, 144, 48, 153, 165, 126>>, -2147483646, 22, 1, <<2, 0, 3, 0, 1, 9,
        200000>>, TRUE>>, <<185166, <<78, 211, 178, 39, 154, 155, 233, 110>>, 431, 7, 2, <<8, 5,
        8, 4, 3, 9, 200000>>, TRUE>>, <<185434, <<166, 43, 237, 7, 152, 190, 172, 186>>, 431,
        13, 2, <<7, 2, 7, 3, 3, 9, 200000>>, TRUE>>, <<185953, <<97, 214, 2, 197, 88, 58, 32,
        53>>, -19975, 8, 2, <<3, 3, 2, 3, 3, 9, 200000>>, TRUE>>, <<186735, <<145, 38, 253, 253,
        81, 71, 28, 236>>, 432, 7, 1, <<3, 6, 2, 6, 1, 9, 200000>>, TRUE>>, <<188519, <<103,
        224, 178, 241, 149, 113, 20, 113>>, -2147483646, 2, 1, <<7, 2, 7, 1, 1, 9, 200000>>,
        TRUE>>, <<188538, <<134, 31, 221, 174, 119, 177, 180, 144>>, -431, 1, 1, <<6, 2, 6, 1,
        1, 9, 90000>>, TRUE>>, <<189574, <<134, 228, 50, 70, 100, 168, 204, 58>>, 431, 25, 2,
        <<7, 2, 7, 3, 3, 9, 200000>>, TRUE>>, <<190538, <<182, 23, 141, 29, 4, 212, 195, 212>>,
        -431, 3, 1, <<6, 6, 5, 6, 1, 9, 90000>>, TRUE>>, <<191207, <<25, 21, 109, 16, 219, 227,
        132, 167>>, 432, 11, 1, <<5, 6, 6, 6, 1, 9, 200000>>, TRUE>>, <<193144, <<120, 242, 130,
        225, 241, 168, 183, 9>>, -431, 11, 1, <<4, 3, 3, 3, 1, 9, 200000>>, TRUE>>, <<193938,
        <<110, 10, 109, 143, 221, 192, 35, 139>>, -2147483646, 21, 1, <<1, 4, 0, 4, 3, 9,
        200000>>, TRUE>>, <<193992, <<200, 245, 50, 101, 165, 164, 145, 49>>, 431, 3, 2, <<3, 3,
        2, 3, 3, 9, 200000>>, TRUE>>, <<194108, <<196, 9, 237, 52, 51, 122, 194, 227>>, -431, 5,
        1, <<7, 5, 7, 4, 1, 9, 200000>>, TRUE>>, <<194442, <<138, 247, 98, 9, 107, 79, 47,
        104>>, 432, 7, 1, <<2, 2, 2, 3, 3, 9, 200000>>, TRUE>>, <<194469, <<91, 8, 157, 57, 217,
        164, 191, 246>>, -431, 24, 1, <<7, 3, 6, 3, 3, 9, 200000>>, TRUE>>, <<196000, <<160,
        253, 98, 86, 145, 249, 214, 4>>, 431, 9, 2, <<2, 5, 2, 6, 3, 9, 200000>>, TRUE>>,
        <<196294, <<58, 1, 125, 62, 197, 136, 156, 232>>, -431, 3, 1, <<7, 6, 7, 5, 1, 9, 308>>,
        TRUE>>, <<196939, <<181, 254, 172, 89, 163, 119, 46, 244>>, 431, 6, 2, <<5, 3, 4, 3, 1,
        9, 200000>>, TRUE>>, <<196952, <<168, 254, 44, 112, 37, 230, 54, 250>>, 431, 9, 2, <<6,
        4, 6, 3, 3, 9, 200000>>, TRUE>>, <<197561, <<71, 252, 60, 91, 56, 98, 18, 164>>,
        -2147483646, 12, 1, <<3, 3, 2, 3, 1, 9, 200000>>, TRUE>>, <<197588, <<44, 252, 108, 236,
        146, 96, 94, 180>>, 431, 11, 2, <<8, 5, 8, 4, 3, 9, 200000>>, TRUE>>, <<197775, <<143,
        4, 163, 225, 241, 121, 164, 11>>, -431, 10, 1, <<8, 2, 8, 1, 3, 9, 200000>>, TRUE>>,
        <<197861, <<229, 4, 163, 239, 227, 109, 29, 39>>, -2147483646, 4, 1, <<2, 3, 1, 3, 1, 9,
        200000>>, TRUE>>, <<198107, <<37, 250, 204, 189, 223, 253, 129, 160>>, -1, 4, 2, <<7, 4,
        8, 4, 3, 9, 200000>>, TRUE>>, <<198773, <<139, 247, 76, 113, 93, 82, 158, 200>>, 19972,
        1, 1, <<8, 4, 8, 3, 1, 9, 90000>>, TRUE>>, <<199138, <<30, 246, 60, 163, 95, 195, 243,
        227>>, -431, 1, 1, <<0, 5, 1, 5, 1, 9, 200000>>, TRUE>>, <<199724, <<44, 12, 19, 106,
        187, 203, 195, 54>>, 431, 5, 2, <<8, 2, 7, 2, 3, 9, 200000>>, TRUE>>, <<201076, <<116,
        17, 3, 198, 249, 249, 119, 31>>, 431, 5, 2, <<3, 0, 2, 0, 3, 9, 200000>>, TRUE>>,
        <<201098, <<138, 17, 179, 3, 162, 192, 6, 116>>, -431, 10, 1, <<3, 6, 4, 6, 1, 9,
        200000>>, TRUE>>, <<201206, <<10, 238, 156, 202, 60, 146, 90, 146>>, -431, 1, 1, <<6, 4,
        6, 3, 1, 9, 459>>, TRUE>>, <<201427, <<211, 18, 163, 31, 250, 139, 80, 122>>, 19970, 3,
        1, <<7, 3, 8, 3, 1, 9, 90000>>, TRUE>>, <<201684, <<44, 236, 108, 179, 163, 13, 50,
        176>>, -19981, 13, 2, <<7, 2, 6, 2, 3, 1, 200000>>, TRUE>>, <<201872, <<112, 235, 12,
        137, 79, 26, 254, 152>>, -19991, 29, 2, <<2, 0, 3, 0, 1, 9, 200000>>, TRUE>>, <<201977,
        <<7, 235, 44, 126, 101, 122, 97, 150>>, -2147483646, 18, 1, <<2, 2, 2, 3, 1, 9,
        200000>>, TRUE>>, <<202292, <<52, 22, 211, 8, 86, 241, 122, 64>>, 19968, 4, 1, <<4, 0,
        3, 0, 3, 9, 200000>>, TRUE>>, <<202313, <<183, 233, 28, 116, 31, 97, 226, 191>>, 431, 8,
        2, <<7, 5, 6, 5, 1, 9, 200000>>, TRUE>>, <<202604, <<148, 232, 140, 113, 252, 36, 213,
        253>>, -19979, 4, 2, <<4, 0, 3, 0, 3, 1, 200000>>, TRUE>>, <<202712, <<40, 232, 108,
        121, 245, 191, 159, 170>>, 431, 29, 2, <<6, 3, 7, 3, 3, 9, 200000>>, TRUE>>, <<203017,
        <<247, 230, 92, 154, 189, 208, 163, 240>>, 19970, 5, 1, <<7, 4, 7, 3, 1, 9, 200000>>,
        TRUE>>, <<203736, <<40, 228, 236, 243, 92, 65, 172, 213>>, -431, 11, 1, <<3, 6, 4, 6, 1,
        9, 200000>>, TRUE>>, <<204338, <<50, 30, 211, 97, 119, 58, 95, 28>>, 432, 9, 1, <<2, 1,
        2, 0, 3, 9, 200000>>, TRUE>>, <<204361, <<183, 225, 140, 84, 18, 216, 174, 175>>, 431,
        1, 2, <<8, 6, 7, 6, 1, 9, 465>>, TRUE>>, <<204687, <<113, 224, 172, 249, 226, 208, 75,
        201>>, 431, 2, 2, <<2, 5, 1, 5, 1, 9, 1510>>, TRUE>>, <<204855, <<201, 223, 76, 164,
        229, 152, 131, 228>>, -2147483646, 1, 1, <<1, 5, 1, 4, 1, 9, 938>>, TRUE>>, <<204905,
        <<151, 223, 12, 23, 21, 6, 134, 141>>, -1, 1, 2, <<8, 2, 8, 1, 3, 9, 90000>>, TRUE>>,
        <<206740, <<108, 216, 28, 39, 240, 180, 214, 142>>, 0, 24, 2, <<2, 2, 2, 3, 1, 9,
        200000>>, TRUE>>, <<206798, <<50, 216, 140, 16, 111, 123, 112, 142>>, -19979, 5, 2, <<7,
        1, 7, 0, 3, 1, 200000>>, TRUE>>, <<206836, <<12, 216, 92, 26, 76, 2, 42, 154>>, -431, 1,
        1, <<6, 0, 5, 0, 1, 9, 90000>>, TRUE>>, <<207857, <<241, 43, 83, 205, 20, 105, 127,
        23>>, 432, 9, 1, <<6, 6, 7, 6, 1, 9, 80000>>, TRUE>>, <<209023, <<129, 207, 60, 39, 235,
        135, 143, 166>>, 1, 7, 1, <<1, 0, 0, 0, 1, 9, 90000>>, TRUE>>, <<209181, <<227, 206, 28,
        16, 8, 199, 251, 167>>, -2147483646, 22, 1, <<0, 4, 1, 4, 1, 9, 200000>>, TRUE>>,
        <<209396, <<244, 49, 227, 205, 196, 214, 139, 18>>, -19975, 1, 2, <<6, 4, 6, 5, 3, 1,
        119600>>, TRUE>>, <<209533, <<131, 205, 44, 51, 104, 201, 220, 222>>, 431, 5, 2, <<2, 4,
        2, 3, 1, 9, 200000>>, TRUE>>, <<210164, <<12, 203, 220, 234, 17, 156, 56, 252>>, 0, 6,
        1, <<1, 0, 2, 0, 1, 9, 200000>>, TRUE>>, <<210297, <<121, 53, 3, 0, 62, 205, 60, 72>>,
        -431, 2, 1, <<7, 4, 7, 3, 3, 9, 200000>>, TRUE>>, <<210662, <<26, 201, 28, 176, 187,
        219, 215, 226>>, 431, 2, 2, <<1, 5, 1, 4, 3, 9, 90000>>, TRUE>>, <<211381, <<181, 57,
        195, 158, 65, 99, 65, 46>>, 0, 13, 1, <<6, 5, 6, 4, 3, 9, 200000>>, TRUE>>, <<211579,
        <<133, 197, 44, 90, 73, 2, 249, 130>>, 19970, 5, 1, <<7, 4, 7, 3, 1, 9, 58>>, TRUE>>,
        <<211633, <<79, 197, 92, 132, 239, 98, 208, 149>>, -2147483646, 10, 1, <<2, 3, 2, 2, 1,
        9, 200000>>, TRUE>>, <<211749, <<37, 59, 115, 35, 227, 215, 86, 63>>, -2147483646, 2, 1,
        <<3, 0, 4, 0, 1, 9, 200000>>, TRUE>>, <<211777, <<191, 196, 76, 61, 174, 125, 109,
        215>>, -431, 6, 1, <<8, 6, 7, 6, 3, 9, 200000>>, TRUE>>, <<212288, <<64, 61, 163, 161,
        131, 232, 5, 110>>, 431, 6, 2, <<3, 0, 4, 0, 3, 9, 90000>>, TRUE>>, <<213046, <<54, 64,
        147, 185, 197, 163, 102, 101>>, 431, 11, 2, <<8, 5, 8, 4, 3, 9, 200000>>, TRUE>>,
        <<213264, <<240, 190, 204, 92, 239, 193, 217, 230>>, -431, 1, 1, <<5, 0, 6, 0, 1, 9,
        200000>>, TRUE>>, <<213695, <<191, 66, 115, 66, 16, 164, 98, 114>>, -2147483646, 3, 1,
        <<0, 5, 1, 5, 1, 9, 200000>>, TRUE>>, <<215890, <<82, 75, 147, 172, 17, 64, 115, 71>>,
        -19975, 10, 2, <<5, 0, 4, 0, 1, 9, 200000>>, TRUE>>, <<216459, <<139, 77, 35, 210, 15,
        98, 107, 45>>, -2147483646, 1, 1, <<2, 2, 1, 2, 1, 9, 1328>>, TRUE>>, <<218909, <<29,
        87, 211, 43, 50, 185, 89, 71>>, -2147483646, 8, 1, <<2, 0, 3, 0, 1, 9, 200000>>, TRUE>>,
        <<218932, <<52, 87, 179, 19, 2, 159, 95, 80>>, -19975, 5, 2, <<7, 2, 7, 3, 1, 9,
        200000>>, TRUE>>, <<218986, <<106, 87, 243, 220, 24, 217, 198, 73>>, -431, 29, 2, <<2,
        2, 1, 2, 1, 9, 200000>>, TRUE>>, <<219052, <<172, 87, 67, 145, 140, 88, 66, 112>>, -431,
        1, 1, <<1, 5, 1, 4, 1, 9, 90000>>, TRUE>>, <<219534, <<114, 166, 236, 254, 181, 236,
        193, 235>>, 19978, 1, 1, <<7, 3, 8, 3, 1, 9, 0>>, TRUE>>, <<220048, <<112, 164, 12, 223,
        150, 102, 67, 201>>, 431, 5, 2, <<6, 4, 6, 3, 3, 9, 200000>>, TRUE>>, <<220297, <<137,
        92, 35, 152, 186, 216, 14, 59>>, -19987, 20, 2, <<2, 4, 1, 4, 3, 9, 200000>>, TRUE>>,
        <<220400, <<240, 92, 99, 17, 116, 155, 194, 6>>, -19983, 3, 1, <<1, 2, 2, 2, 1, 9,
        2587>>, TRUE>>, <<221036, <<148, 160, 156, 109, 118, 131, 211, 130>>, 431, 5, 2, <<5, 0,
        4, 0, 3, 9, 90000>>, TRUE>>, <<222326, <<118, 100, 227, 114, 167, 119, 238, 95>>, -431,
        23, 2, <<2, 0, 2, 1, 1, 9, 200000>>, TRUE>>, <<223582, <<162, 150, 140, 174, 112, 130,
        107, 244>>, -431, 3, 1, <<8, 1, 8, 0, 1, 9, 200000>>, TRUE>>, <<225708, <<172, 113, 3,
        225, 14, 241, 100, 14>>, -431, 6, 1, <<6, 5, 7, 5, 1, 9, 200000>>, TRUE>>, <<226476,
        <<84, 139, 60, 198, 219, 187, 215, 224>>, 431, 27, 2, <<5, 3, 6, 3, 3, 9, 200000>>,
        TRUE>>, <<227538, <<46, 135, 124, 245, 99, 111, 2, 150>>, -431, 1, 1, <<7, 4, 7, 5, 1,
        9, 410>>, TRUE>>, <<227614, <<30, 121, 211, 241, 48, 27, 247, 125>>, -431, 4, 1, <<7, 6,
        7, 5, 1, 9, 200000>>, TRUE>>, <<227726, <<142, 121, 35, 140, 201, 186, 173, 43>>, 0, 12,
        1, <<3, 0, 4, 0, 1, 9, 200000>>, TRUE>>, <<227906, <<66, 122, 83, 241, 71, 160, 106,
        54>>, 2147483646, 2, 2, <<0, 4, 0, 5, 1, 9, 200000>>, TRUE>>, <<227976, <<136, 122, 3,
        148, 172, 189, 132, 71>>, -431, 11, 1, <<2, 5, 1, 5, 1, 9, 200000>>, TRUE>>, <<228075,
        <<21, 133, 188, 100, 1, 67, 96, 226>>, -19975, 6, 2, <<1, 1, 1, 2, 3, 9, 200000>>,
        TRUE>>, <<228338, <<14, 132, 92, 17, 240, 112, 206, 175>>, -431, 2, 1, <<6, 5, 7, 5, 1,
        9, 200000>>, TRUE>>, <<228715, <<149, 130, 44, 200, 106, 10, 219, 210>>, 431, 3, 2, <<0,
        1, 0, 0, 1, 9, 200000>>, TRUE>>, <<229110, <<246, 126, 99, 54, 37, 58, 125, 65>>, 431,
        25, 2, <<3, 3, 4, 3, 3, 9, 200000>>, TRUE>>, <<230245, <<101, 131, 115, 162, 75, 176,
        106, 59>>, -2147483646, 2, 1, <<1, 3, 1, 2, 1, 9, 90000>>, TRUE>>, <<230328, <<184, 131,
        35, 145, 185, 66, 59, 19>>, 2147483646, 2, 2, <<0, 6, 0, 5, 1, 9, 9395>>, TRUE>>,
        <<230347, <<53, 124, 188, 45, 189, 181, 200, 247>>, 431, 2, 2, <<8, 5, 7, 5, 1, 9,
        297>>, TRUE>>, <<230396, <<252, 131, 67, 215, 115, 229, 252, 111>>, -431, 1, 1, <<6, 5,
        6, 6, 1, 9, 87>>, TRUE>>, <<230940, <<228, 121, 44, 10, 112, 181, 100, 237>>, -431, 1,
        1, <<0, 0, 0, 1, 1, 9, 45110>>, TRUE>>, <<231121, <<47, 121, 12, 135, 140, 102, 148,
        154>>, 19970, 5, 1, <<7, 4, 8, 4, 1, 9, 19>>, TRUE>>, <<231164, <<4, 121, 124, 240, 166,
        175, 79, 129>>, 431, 3, 2, <<7, 5, 8, 5, 3, 9, 200000>>, TRUE>>, <<231224, <<200, 120,
        188, 163, 212, 30, 225, 208>>, 2147483646, 2, 2, <<2, 6, 3, 6, 1, 9, 200000>>, TRUE>>,
        <<231311, <<143, 135, 83, 254, 38, 179, 59, 39>>, 431, 22, 2, <<3, 0, 4, 0, 1, 9,
        200000>>, TRUE>>, <<231400, <<232, 135, 147, 111, 177, 171, 221, 97>>, -431, 3, 1, <<1,
        3, 2, 3, 1, 9, 200000>>, TRUE>>, <<231509, <<85, 136, 51, 220, 59, 233, 37, 72>>,
        2147483646, 6, 2, <<2, 6, 3, 6, 3, 9, 200000>>, TRUE>>, <<233132, <<172, 142, 83, 219,
        200, 79, 64, 117>>, 431, 8, 2, <<6, 3, 7, 3, 3, 9, 200000>>, TRUE>>, <<233456, <<240,
        143, 99, 95, 46, 197, 112, 34>>, 431, 13, 2, <<4, 3, 5, 3, 3, 9, 200000>>, TRUE>>,
        <<234130, <<146, 146, 179, 131, 207, 21, 119, 19>>, -2147483646, 1, 1, <<2, 4, 2, 3, 3,
        9, 93998>>, TRUE>>, <<234410, <<170, 147, 163, 137, 184, 151, 173, 125>>, -431, 1, 1,
        <<4, 3, 3, 3, 1, 9, 2164>>, TRUE>>, <<234783, <<225, 106, 220, 137, 222, 66, 22, 219>>,
        -1, 3, 2, <<7, 0, 6, 0, 3, 9, 200000>>, TRUE>>, <<235194, <<70, 105, 188, 168, 61, 115,
        119, 192>>, 431, 12, 2, <<5, 3, 4, 3, 3, 9, 200000>>, TRUE>>, <<236759, <<41, 99, 204,
        149, 105, 66, 108, 230>>, -431, 16, 1, <<7, 3, 7, 2, 3, 9, 200000>>, TRUE>>, <<236772,
        <<228, 156, 227, 88, 195, 242, 221, 97>>, 431, 14, 2, <<3, 3, 4, 3, 3, 9, 200000>>,
        TRUE>>, <<236791, <<9, 99, 188, 141, 145, 66, 193, 214>>, 2147483646, 2, 2, <<0, 0, 0,
        1, 3, 9, 200000>>, TRUE>>, <<237755, <<69, 95, 44, 19, 234, 56, 24, 221>>, 0, 1, 2, <<1,
        0, 2, 0, 1, 9, 90000>>, TRUE>>, <<237800, <<24, 95, 76, 100, 195, 125, 250, 183>>, 0, 3,
        2, <<5, 6, 4, 6, 3, 9, 200000>>, TRUE>>, <<237872, <<48, 161, 195, 42, 104, 179, 111,
        30>>, 431, 9, 2, <<8, 4, 8, 5, 3, 9, 200000>>, TRUE>>, <<238232, <<152, 162, 243, 188,
        178, 94, 50, 4>>, 431, 21, 2, <<6, 3, 7, 3, 3, 9, 200000>>, TRUE>>, <<238739, <<109, 91,
        172, 12, 14, 207, 38, 236>>, 432, 13, 1, <<4, 6, 5, 6, 1, 9, 200000>>, TRUE>>, <<239501,
        <<115, 88, 156, 140, 90, 229, 87, 231>>, 19968, 1, 1, <<7, 3, 8, 3, 1, 9, 177>>, TRUE>>,
        <<240110, <<18, 86, 252, 25, 146, 111, 229, 163>>, -431, 1, 1, <<0, 2, 1, 2, 1, 9,
        200000>>, TRUE>>, <<240510, <<130, 84, 76, 164, 48, 219, 242, 178>>, 478, 2, 2, <<2, 1,
        1, 1, 3, 9, 90000>>, TRUE>>, <<240890, <<6, 83, 188, 82, 240, 59, 9, 188>>, -2147483646,
        19, 1, <<2, 2, 1, 2, 3, 9, 200000>>, TRUE>>, <<240950, <<202, 82, 60, 226, 241, 109, 27,
        243>>, -1, 2, 2, <<0, 1, 0, 0, 1, 9, 200000>>, TRUE>>, <<242018, <<158, 78, 92, 162,
        180, 226, 61, 165>>, 431, 5, 2, <<8, 4, 8, 5, 3, 9, 200000>>, TRUE>>, <<242528, <<160,
        76, 140, 106, 146, 213, 65, 135>>, 0, 3, 1, <<5, 0, 4, 0, 1, 9, 200000>>, TRUE>>,
        <<242709, <<21, 180, 147, 202, 3, 25, 41, 105>>, -2147483646, 3, 1, <<5, 3, 4, 3, 1, 9,
        200000>>, TRUE>>, <<242781, <<163, 75, 140, 250, 65, 208, 86, 200>>, -2147483646, 8, 1,
        <<2, 6, 1, 6, 1, 9, 200000>>, TRUE>>, <<243133, <<189, 181, 243, 116, 238, 187, 237,
        38>>, 0, 3, 2, <<2, 0, 3, 0, 1, 9, 7596>>, TRUE>>, <<243512, <<200, 72, 76, 46, 77, 189,
        189, 225>>, -431, 3, 1, <<6, 0, 5, 0, 1, 9, 200000>>, TRUE>>, <<244778, <<42, 188, 195,
        188, 5, 234, 220, 13>>, 1, 6, 1, <<5, 0, 4, 0, 3, 9, 200000>>, TRUE>>, <<244891, <<155,
        188, 83, 6, 187, 11, 199, 58>>, -19987, 22, 2, <<0, 2, 0, 3, 3, 9, 200000>>, TRUE>>,
        <<244926, <<190, 188, 3, 48, 255, 173, 244, 126>>, -431, 3, 1, <<0, 5, 1, 5, 1, 9,
        200000>>, TRUE>>, <<246164, <<148, 193, 3, 97, 64, 162, 233, 98>>, -431, 8, 1, <<4, 6,
        3, 6, 1, 9, 200000>>, TRUE>>, <<246203, <<187, 193, 211, 187, 232, 110, 120, 89>>, 431,
        2, 2, <<7, 1, 6, 1, 1, 9, 200000>>, TRUE>>, <<246589, <<61, 195, 147, 142, 129, 151,
        133, 39>>, -431, 20, 1, <<5, 3, 4, 3, 3, 9, 200000>>, TRUE>>, <<247360, <<64, 198, 99,
        199, 202, 115, 138, 75>>, 432, 2, 1, <<2, 2, 2, 1, 3, 9, 200000>>, TRUE>>, <<247532,
        <<236, 198, 195, 243, 63, 123, 28, 88>>, -431, 27, 2, <<1, 2, 1, 1, 1, 9, 200000>>,
        TRUE>>, <<248161, <<159, 54, 204, 126, 127, 22, 47, 134>>, -431, 21, 2, <<3, 3, 2, 3, 3,
        9, 200000>>, TRUE>>, <<248614, <<218, 52, 188, 139, 167, 243, 122, 250>>, 0, 9, 1, <<2,
        1, 2, 0, 1, 9, 200000>>, TRUE>>, <<248753, <<79, 52, 204, 137, 108, 42, 29, 153>>,
        2147483646, 6, 2, <<2, 6, 3, 6, 3, 9, 200000>>, TRUE>>, <<249042, <<46, 51, 28, 31, 105,
        212, 170, 182>>, -19991, 2, 1, <<3, 0, 4, 0, 1, 9, 200000>>, TRUE>>, <<249230, <<142,
        205, 67, 102, 195, 1, 5, 11>>, -431, 2, 1, <<7, 4, 7, 5, 1, 9, 525>>, TRUE>>, <<250460,
        <<164, 45, 172, 205, 202, 51, 140, 168>>, 431, 4, 2, <<4, 0, 3, 0, 3, 9, 200000>>,
        TRUE>>, <<251066, <<186, 212, 179, 197, 120, 10, 221, 6>>, -431, 2, 1, <<2, 3, 2, 2, 1,
        9, 200000>>, TRUE>>, <<251088, <<208, 212, 179, 203, 106, 30, 100, 42>>, 431, 2, 2, <<2,
        5, 2, 6, 3, 9, 90000>>, TRUE>>, <<251582, <<66, 41, 92, 123, 227, 42, 78, 227>>, -431,
        17, 2, <<1, 4, 2, 4, 1, 9, 200000>>, TRUE>>, <<251618, <<30, 41, 92, 132, 247, 84, 152,
        220>>, -431, 3, 1, <<5, 6, 4, 6, 1, 9, 90000>>, TRUE>>, <<252365, <<51, 38, 252, 98,
        128, 114, 230, 130>>, -431, 2, 1, <<6, 3, 7, 3, 3, 9, 200000>>, TRUE>>, <<253287, <<103,
        221, 35, 95, 33, 18, 85, 24>>, 431, 3, 2, <<0, 5, 1, 5, 1, 9, 200000>>, TRUE>>,
        <<253628, <<68, 33, 44, 93, 224, 103, 24, 146>>, -431, 7, 1, <<6, 3, 6, 2, 1, 9,
        200000>>, TRUE>>, <<254098, <<146, 224, 51, 61, 225, 9, 81, 59>>, 431, 3, 2, <<8, 5, 8,
        4, 3, 9, 200000>>, TRUE>>, <<254722, <<2, 227, 179, 49, 148, 190, 194, 102>>, 431, 3, 2,
        <<5, 6, 4, 6, 3, 9, 200000>>, TRUE>>, <<255568, <<80, 230, 83, 39, 153, 59, 36, 15>>,
        -19975, 8, 2, <<1, 3, 0, 3, 3, 9, 200000>>, TRUE>>, <<255679, <<65, 25, 140, 252, 247,
        47, 244, 157>>, 432, 1, 1, <<0, 6, 1, 6, 1, 9, 12280>>, TRUE>>, <<256471, <<41, 22, 28,
        11, 26, 182, 9, 166>>, -1, 1, 2, <<7, 1, 7, 2, 3, 9, 15427>>, TRUE>>, <<256552, <<40,
        234, 19, 65, 217, 128, 49, 0>>, 431, 3, 2, <<1, 6, 2, 6, 3, 9, 704>>, TRUE>>, <<256646,
        <<122, 21, 76, 160, 102, 17, 169, 152>>, -2147483646, 7, 1, <<0, 1, 0, 2, 3, 9,
        200000>>, TRUE>>, <<258104, <<200, 15, 28, 61, 142, 97, 70, 172>>, -2147483646, 1, 1,
        <<2, 5, 2, 6, 3, 9, 200000>>, TRUE>>, <<258165, <<139, 15, 108, 133, 119, 96, 238,
        187>>, 432, 7, 1, <<7, 5, 7, 4, 1, 9, 200000>>, TRUE>>, <<258436, <<132, 241, 67, 184,
        117, 184, 70, 90>>, -431, 3, 1, <<2, 5, 1, 5, 1, 9, 200000>>, TRUE>>, <<259043, <<29,
        12, 76, 207, 125, 129, 229, 167>>, -1, 2, 2, <<5, 3, 4, 3, 3, 9, 23622>>, TRUE>>,
        <<259190, <<118, 244, 163, 80, 239, 95, 222, 59>>, -2147483646, 2, 1, <<2, 2, 2, 3, 3,
        9, 200000>>, TRUE>>, <<259673, <<167, 9, 12, 33, 185, 120, 213, 247>>, 431, 2, 2, <<2,
        2, 2, 3, 1, 9, 200000>>, TRUE>>, <<259794, <<46, 9, 220, 117, 75, 52, 203, 148>>, 431,
        1, 2, <<1, 2, 1, 3, 3, 9, 56149>>, TRUE>>, <<260046, <<206, 247, 83, 88, 60, 115, 241,
        23>>, -19983, 16, 2, <<2, 6, 3, 6, 1, 9, 200000>>, TRUE>>, <<260543, <<191, 249, 19, 63,
        131, 0, 79, 6>>, -19975, 9, 2, <<3, 3, 2, 3, 3, 9, 200000>>, TRUE>>, <<261000, <<120, 4,
        252, 253, 67, 132, 195, 137>>, 431, 13, 2, <<7, 2, 7, 3, 3, 9, 200000>>, TRUE>>,
        <<261129, <<9, 252, 195, 169, 57, 197, 7, 63>>, -2147483646, 1, 1, <<4, 0, 3, 0, 1, 9,
        211>>, TRUE>>, <<261653, <<21, 254, 83, 159, 213, 192, 15, 106>>, 432, 3, 1, <<0, 5, 1,
        5, 1, 9, 200000>>, TRUE>>, <<261898, <<246, 0, 140, 164, 198, 168, 96, 229>>, 431, 21,
        2, <<2, 3, 3, 3, 3, 9, 200000>>, TRUE>>, <<261964, <<180, 0, 220, 43, 76, 126, 184,
        248>>, -478, 1, 2, <<5, 3, 4, 3, 1, 9, 16>>, TRUE>>, <<262082, <<62, 0, 252, 10, 76,
        173, 36, 208>>, -431, 9, 1, <<4, 6, 5, 6, 1, 9, 200000>>, TRUE>>, <<262569, <<87, 254,
        91, 139, 208, 134, 242, 167>>, 432, 7, 1, <<2, 2, 1, 2, 1, 9, 200000>>, TRUE>>,
        <<262608, <<208, 1, 212, 133, 12, 82, 199, 75>>, 431, 2, 2, <<2, 2, 2, 3, 3, 9, 97684>>,
        TRUE>>, <<262892, <<20, 253, 219, 108, 158, 116, 51, 250>>, 431, 7, 2, <<2, 0, 1, 0, 3,
        9, 200000>>, TRUE>>, <<263058, <<146, 3, 132, 233, 194, 185, 121, 18>>, -2147483646, 14,
        1, <<3, 3, 4, 3, 3, 9, 200000>>, TRUE>>, <<264067, <<131, 7, 212, 234, 79, 119, 195,
        75>>, 19970, 3, 1, <<7, 3, 8, 3, 1, 9, 200000>>, TRUE>>, <<264468, <<236, 246, 235, 63,
        200, 34, 91, 231>>, -431, 21, 1, <<2, 0, 3, 0, 1, 9, 200000>>, TRUE>>, <<264656, <<48,
        246, 219, 25, 60, 56, 211, 179>>, 431, 19, 2, <<5, 3, 6, 3, 3, 9, 200000>>, TRUE>>,
        <<264780, <<180, 245, 139, 207, 114, 135, 58, 213>>, -2147483646, 25, 1, <<2, 3, 1, 3,
        3, 9, 200000>>, TRUE>>, <<265623, <<105, 242, 155, 19, 130, 169, 52, 175>>, -431, 7, 1,
        <<0, 1, 0, 2, 3, 9, 200000>>, TRUE>>, <<265733, <<5, 14, 132, 226, 52, 91, 70, 47>>,
        -2147483646, 20, 1, <<1, 2, 0, 2, 1, 9, 200000>>, TRUE>>, <<265897, <<169, 14, 36, 214,
        193, 83, 208, 60>>, -19987, 24, 2, <<1, 4, 1, 3, 3, 9, 200000>>, TRUE>>, <<266051, <<67,
        15, 68, 163, 81, 98, 251, 37>>, 431, 8, 2, <<1, 4, 1, 5, 1, 9, 200000>>, TRUE>>,
        <<267558, <<38, 21, 68, 111, 114, 202, 97, 6>>, 0, 4, 1, <<0, 1, 0, 0, 1, 9, 200000>>,
        TRUE>>, <<268046, <<242, 232, 251, 211, 78, 24, 51, 245>>, -431, 10, 1, <<6, 6, 7, 6, 1,
        9, 200000>>, TRUE>>, <<268052, <<236, 232, 219, 154, 3, 91, 188, 210>>, -431, 3, 1, <<6,
        3, 7, 3, 1, 9, 200000>>, TRUE>>, <<268072, <<216, 232, 91, 188, 40, 245, 223, 142>>,
        2147483646, 10, 2, <<0, 4, 0, 5, 1, 9, 200000>>, TRUE>>, <<268194, <<94, 232, 219, 63,
        127, 150, 181, 238>>, -431, 1, 1, <<2, 4, 2, 3, 1, 9, 40269>>, TRUE>>, <<269461, <<107,
        227, 27, 96, 174, 153, 83, 150>>, -431, 2, 1, <<7, 1, 7, 2, 3, 9, 200000>>, TRUE>>,
        <<269592, <<232, 226, 235, 170, 175, 253, 154, 249>>, -431, 3, 1, <<0, 2, 0, 1, 1, 9,
        200000>>, TRUE>>, <<270099, <<237, 224, 219, 43, 141, 51, 169, 158>>, 431, 26, 2, <<1,
        2, 2, 2, 1, 9, 200000>>, TRUE>>, <<270271, <<65, 224, 123, 31, 120, 59, 63, 141>>, -431,
        3, 1, <<7, 2, 7, 3, 3, 9, 200000>>, TRUE>>, <<271437, <<179, 219, 107, 229, 189, 59,
        104, 150>>, -2147483646, 18, 1, <<0, 4, 1, 4, 1, 9, 200000>>, TRUE>>, <<271915, <<213,
        217, 139, 51, 27, 139, 236, 205>>, -2147483646, 1, 1, <<3, 6, 4, 6, 1, 9, 90000>>,
        TRUE>>, <<272044, <<172, 38, 116, 148, 207, 11, 226, 78>>, -2147483646, 18, 1, <<3, 3,
        4, 3, 3, 9, 200000>>, TRUE>>, <<272598, <<42, 215, 43, 149, 137, 122, 254, 223>>, 431,
        15, 2, <<7, 0, 7, 1, 3, 9, 200000>>, TRUE>>, <<273421, <<13, 44, 228, 155, 203, 193, 60,
        122>>, -19971, 4, 2, <<7, 5, 7, 4, 1, 9, 90000>>, TRUE>>, <<273650, <<14, 211, 43, 100,
        49, 138, 72, 239>>, 431, 23, 2, <<5, 3, 6, 3, 3, 9, 200000>>, TRUE>>, <<273801, <<119,
        210, 187, 136, 93, 23, 107, 253>>, -431, 14, 1, <<7, 2, 7, 3, 3, 9, 200000>>, TRUE>>,
        <<274043, <<123, 46, 244, 165, 45, 236, 154, 119>>, 0, 9, 1, <<5, 6, 4, 6, 3, 9,
        200000>>, TRUE>>, <<274395, <<37, 208, 123, 15, 127, 241, 215, 202>>, -2147483646, 5, 1,
        <<0, 5, 0, 4, 1, 9, 200000>>, TRUE>>, <<275127, <<73, 205, 123, 125, 235, 123, 188,
        205>>, 0, 9, 1, <<5, 0, 4, 0, 3, 9, 200000>>, TRUE>>, <<275389, <<67, 204, 75, 177, 16,
        244, 165, 251>>, 2147483646, 8, 2, <<3, 3, 2, 3, 3, 9, 200000>>, TRUE>>, <<275395,
        <<195, 51, 100, 120, 142, 166, 249, 29>>, -431, 10, 1, <<2, 5, 1, 5, 3, 9, 200000>>,
        TRUE>>, <<275433, <<233, 51, 36, 4, 65, 174, 19, 112>>, -431, 1, 1, <<5, 0, 4, 0, 3, 9,
        330>>, TRUE>>, <<276989, <<253, 57, 196, 180, 236, 194, 204, 97>>, 431, 20, 2, <<3, 3,
        2, 3, 1, 9, 200000>>, TRUE>>, <<277034, <<214, 197, 219, 57, 37, 154, 246, 206>>, 432,
        10, 1, <<1, 1, 1, 2, 3, 9, 200000>>, TRUE>>, <<277282, <<222, 196, 75, 181, 0, 42, 141,
        230>>, -1, 1, 2, <<3, 0, 2, 0, 1, 9, 6755>>, TRUE>>, <<277663, <<159, 60, 228, 65, 228,
        127, 132, 76>>, 2147483646, 4, 2, <<1, 4, 1, 3, 3, 9, 200000>>, TRUE>>, <<279117, <<77,
        66, 164, 222, 135, 69, 202, 118>>, -2147483646, 2, 1, <<2, 0, 3, 0, 1, 9, 200000>>,
        TRUE>>, <<279570, <<238, 187, 11, 72, 50, 212, 100, 148>>, 2147483646, 7, 2, <<7, 3, 7,
        4, 1, 9, 200000>>, TRUE>>, <<279643, <<165, 187, 11, 111, 123, 148, 133, 247>>, 432, 1,
        1, <<1, 6, 1, 5, 1, 9, 30675>>, TRUE>>, <<279799, <<9, 187, 171, 91, 142, 156, 19,
        228>>, 19984, 8, 2, <<1, 0, 1, 1, 3, 9, 200000>>, TRUE>>, <<279852, <<44, 69, 116, 72,
        130, 187, 125, 89>>, -2147483646, 1, 1, <<2, 6, 2, 5, 3, 9, 1287>>, TRUE>>, <<279973,
        <<165, 69, 228, 252, 166, 4, 5, 9>>, 431, 2, 2, <<8, 0, 7, 0, 1, 9, 200000>>, TRUE>>,
        <<280984, <<104, 182, 59, 53, 246, 31, 60, 175>>, -431, 3, 1, <<2, 5, 1, 5, 1, 9,
        200000>>, TRUE>>, <<281334, <<246, 74, 20, 106, 159, 225, 99, 54>>, -431, 21, 1, <<2, 2,
        1, 2, 1, 9, 200000>>, TRUE>>, <<283815, <<167, 84, 52, 211, 82, 205, 65, 95>>, -432, 1,
        2, <<1, 0, 0, 0, 3, 9, 200000>>, TRUE>>, <<284030, <<126, 85, 164, 67, 184, 237, 142,
        26>>, 431, 21, 2, <<5, 3, 6, 3, 3, 9, 200000>>, TRUE>>, <<284031, <<129, 170, 59, 82,
        138, 126, 200, 166>>, 0, 15, 1, <<6, 2, 7, 2, 3, 9, 200000>>, TRUE>>, <<284408, <<248,
        86, 148, 51, 126, 47, 57, 112>>, -431, 6, 1, <<2, 6, 2, 5, 1, 9, 200000>>, TRUE>>,
        <<284963, <<221, 166, 203, 136, 188, 69, 167, 184>>, -19987, 22, 2, <<0, 4, 0, 3, 3, 9,
        200000>>, TRUE>>, <<285113, <<71, 166, 139, 106, 220, 22, 49, 198>>, -431, 2, 1, <<2, 5,
        2, 4, 3, 9, 90000>>, TRUE>>, <<285872, <<80, 163, 251, 114, 38, 64, 191, 147>>, -431, 1,
        1, <<1, 5, 1, 4, 1, 9, 90000>>, TRUE>>, <<285887, <<191, 92, 180, 77, 9, 92, 130, 40>>,
        431, 1, 2, <<1, 0, 2, 0, 1, 9, 9381>>, TRUE>>, <<286272, <<192, 161, 75, 207, 132, 244,
        168, 130>>, 432, 9, 1, <<2, 1, 1, 1, 3, 9, 200000>>, TRUE>>, <<286499, <<35, 95, 148,
        244, 151, 156, 199, 13>>, -2147483646, 15, 1, <<0, 5, 1, 5, 1, 9, 200000>>, TRUE>>,
        <<286500, <<220, 160, 251, 179, 70, 108, 36, 187>>, -2147483646, 27, 1, <<3, 3, 4, 3, 3,
        9, 200000>>, TRUE>>, <<286765, <<45, 96, 52, 6, 232, 125, 233, 46>>, 431, 6, 2, <<4, 0,
        3, 0, 1, 9, 200000>>, TRUE>>, <<287467, <<21, 157, 75, 38, 5, 83, 79, 154>>,
        -2147483646, 6, 1, <<1, 0, 2, 0, 1, 9, 200000>>, TRUE>>, <<287761, <<239, 155, 251, 67,
        251, 27, 83, 203>>, -19991, 18, 2, <<1, 4, 1, 3, 3, 9, 200000>>, TRUE>>, <<288098, <<98,
        101, 228, 41, 166, 235, 80, 67>>, 431, 1, 2, <<4, 6, 3, 6, 3, 9, 90000>>, TRUE>>,
        <<288268, <<12, 102, 212, 92, 91, 154, 180, 13>>, -431, 1, 1, <<8, 5, 7, 5, 1, 9, 422>>,
        TRUE>>, <<288486, <<230, 102, 52, 228, 174, 94, 243, 88>>, -431, 1, 1, <<1, 0, 2, 0, 1,
        9, 13128>>, TRUE>>, <<288734, <<222, 103, 180, 71, 192, 152, 207, 73>>, -431, 20, 2,
        <<0, 4, 1, 4, 1, 9, 200000>>, TRUE>>, <<288805, <<219, 151, 43, 133, 1, 182, 16, 169>>,
        -2147483646, 1, 1, <<2, 3, 2, 2, 1, 9, 90000>>, TRUE>>, <<288912, <<144, 104, 52, 126,
        204, 196, 251, 33>>, 431, 11, 2, <<2, 0, 3, 0, 3, 9, 200000>>, TRUE>>, <<289962, <<86,
        147, 203, 72, 251, 173, 167, 243>>, -431, 3, 1, <<2, 3, 2, 2, 1, 9, 200000>>, TRUE>>,
        <<290546, <<242, 110, 36, 9, 116, 243, 226, 41>>, -431, 1, 1, <<5, 6, 4, 6, 1, 9,
        90000>>, TRUE>>, <<290946, <<130, 112, 212, 34, 29, 226, 111, 101>>, 431, 3, 2, <<8, 5,
        8, 4, 3, 9, 200000>>, TRUE>>, <<291441, <<113, 114, 180, 157, 155, 7, 43, 64>>, 431, 5,
        2, <<1, 5, 1, 4, 1, 9, 200000>>, TRUE>>, <<292103, <<7, 117, 164, 138, 66, 115, 188,
        122>>, -431, 22, 1, <<7, 2, 8, 2, 3, 9, 200000>>, TRUE>>, <<292234, <<138, 117, 228,
        243, 138, 253, 99, 2>>, -431, 5, 1, <<2, 6, 3, 6, 1, 9, 200000>>, TRUE>>, <<293554,
        <<178, 122, 100, 52, 154, 234, 42, 18>>, -2147483646, 30, 1, <<4, 3, 5, 3, 3, 9,
        200000>>, TRUE>>, <<293559, <<73, 133, 107, 97, 97, 220, 186, 178>>, -431, 4, 1, <<4, 0,
        3, 0, 3, 9, 213>>, TRUE>>, <<294196, <<52, 125, 20, 160, 222, 73, 87, 28>>, -431, 3, 1,
        <<6, 4, 6, 3, 1, 9, 200000>>, TRUE>>, <<294222, <<178, 130, 59, 15, 112, 38, 242, 240>>,
        431, 6, 2, <<3, 0, 4, 0, 3, 9, 200000>>, TRUE>>, <<295161, <<7, 127, 203, 72, 227, 155,
        239, 186>>, 432, 11, 1, <<5, 6, 4, 6, 1, 9, 200000>>, TRUE>>, <<298208, <<224, 140, 164,
        103, 146, 59, 66, 9>>, 0, 6, 1, <<1, 0, 2, 0, 1, 9, 200000>>, TRUE>>, <<298319, <<79,
        141, 212, 45, 124, 241, 62, 116>>, 0, 8, 1, <<8, 5, 8, 6, 3, 9, 200000>>, TRUE>>,
        <<299013, <<5, 144, 20, 76, 170, 74, 69, 94>>, -431, 24, 2, <<1, 2, 2, 2, 3, 9,
        200000>>, TRUE>>, <<299776, <<0, 147, 116, 96, 174, 118, 41, 94>>, -431, 1, 1, <<4, 6,
        3, 6, 1, 9, 90000>>, TRUE>>, <<299824, <<48, 147, 180, 109, 79, 119, 229, 10>>, 431, 5,
        2, <<2, 3, 3, 3, 3, 9, 200000>>, TRUE>>, <<300537, <<249, 149, 84, 113, 103, 170, 163,
        105>>, 2147483646, 7, 2, <<5, 3, 6, 3, 3, 9, 200000>>, TRUE>>, <<300941, <<141, 151,
        148, 173, 84, 109, 158, 4>>, -2147483646, 2, 1, <<4, 6, 3, 6, 1, 9, 90000>>, TRUE>>,
        <<301179, <<123, 152, 116, 154, 150, 161, 252, 120>>, -1, 1, 2, <<6, 4, 6, 3, 3, 9,
        90000>>, TRUE>>, <<301559, <<247, 153, 52, 176, 18, 181, 181, 61>>, -1, 1, 2, <<4, 0, 3,
        0, 3, 9, 69>>, TRUE>>, <<301587, <<19, 154, 180, 72, 161, 139, 158, 88>>, -2147483646,
        24, 1, <<3, 0, 4, 0, 1, 9, 200000>>, TRUE>>, <<301900, <<180, 100, 75, 255, 199, 131,
        84, 188>>, 431, 2, 2, <<3, 3, 2, 3, 3, 9, 200000>>, TRUE>>, <<301901, <<179, 100, 235,
        49, 11, 94, 49, 229>>, 431, 1, 2, <<7, 4, 7, 5, 1, 9, 200000>>, TRUE>>, <<302326, <<246,
        156, 148, 87, 108, 186, 75, 34>>, 431, 19, 2, <<7, 4, 7, 3, 3, 9, 200000>>, TRUE>>,
        <<303013, <<91, 96, 11, 129, 153, 43, 9, 200>>, 2147483646, 7, 2, <<3, 3, 4, 3, 3, 9,
        200000>>, TRUE>>, <<303373, <<243, 94, 251, 15, 244, 44, 197, 249>>, -2147483646, 19, 1,
        <<2, 6, 1, 6, 1, 9, 200000>>, TRUE>>, <<304787, <<147, 166, 52, 122, 189, 226, 178,
        35>>, -19991, 26, 2, <<1, 3, 0, 3, 3, 9, 200000>>, TRUE>>, <<305240, <<88, 168, 116,
        111, 232, 28, 55, 87>>, -431, 3, 1, <<2, 4, 2, 3, 1, 9, 200000>>, TRUE>>, <<305611,
        <<203, 169, 36, 243, 14, 247, 84, 11>>, -431, 13, 2, <<2, 4, 1, 4, 3, 9, 200000>>,
        TRUE>>, <<305644, <<20, 86, 59, 101, 165, 142, 112, 171>>, 432, 10, 1, <<1, 0, 1, 1, 3,
        9, 200000>>, TRUE>>, <<305989, <<187, 84, 219, 104, 122, 185, 55, 216>>, -431, 2, 1,
        <<1, 6, 2, 6, 3, 9, 492>>, TRUE>>, <<306673, <<241, 173, 116, 178, 70, 141, 244, 48>>,
        431, 2, 2, <<6, 2, 6, 1, 1, 9, 200000>>, TRUE>>, <<307323, <<133, 79, 75, 3, 17, 18,
        210, 211>>, 431, 2, 2, <<1, 3, 1, 2, 1, 9, 2496>>, TRUE>>, <<307379, <<77, 79, 139, 42,
        194, 119, 14, 153>>, -431, 1, 1, <<7, 4, 7, 3, 3, 9, 67763>>, TRUE>>, <<308035, <<67,
        179, 100, 77, 98, 225, 239, 8>>, -431, 3, 1, <<0, 0, 0, 1, 3, 9, 200000>>, TRUE>>,
        <<309034, <<214, 72, 123, 95, 175, 242, 33, 238>>, 1, 6, 1, <<6, 5, 6, 6, 3, 9,
        200000>>, TRUE>>, <<309266, <<238, 71, 59, 161, 136, 197, 105, 164>>, 431, 19, 2, <<7,
        4, 7, 3, 3, 9, 200000>>, TRUE>>, <<309572, <<68, 185, 84, 253, 166, 65, 76, 15>>, 1, 8,
        1, <<8, 2, 7, 2, 3, 9, 200000>>, TRUE>>, <<310429, <<99, 67, 219, 108, 114, 222, 222,
        254>>, 0, 5, 1, <<6, 4, 7, 4, 3, 9, 200000>>, TRUE>>, <<310957, <<173, 190, 52, 35, 239,
        148, 34, 8>>, 431, 10, 2, <<5, 6, 4, 6, 1, 9, 80000>>, TRUE>>, <<311044, <<4, 191, 20,
        10, 53, 102, 151, 123>>, -2147483646, 11, 1, <<2, 3, 3, 3, 3, 9, 200000>>, TRUE>>,
        <<312401, <<175, 59, 27, 212, 7, 74, 67, 253>>, -19975, 10, 2, <<2, 3, 3, 3, 3, 9,
        200000>>, TRUE>>, <<313483, <<117, 55, 11, 78, 181, 46, 146, 217>>, 2147483646, 4, 2,
        <<1, 2, 1, 3, 3, 9, 200000>>, TRUE>>, <<315390, <<2, 48, 251, 241, 221, 11, 135, 188>>,
        -2147483646, 16, 1, <<4, 3, 5, 3, 3, 9, 200000>>, TRUE>>, <<315555, <<93, 47, 107, 207,
        50, 212, 66, 213>>, -19971, 1, 2, <<0, 2, 0, 3, 3, 9, 90000>>, TRUE>>, <<315692, <<44,
        209, 84, 144, 87, 150, 251, 47>>, -431, 1, 1, <<0, 6, 1, 6, 1, 9, 11472>>, TRUE>>,
        <<316031, <<129, 45, 203, 70, 162, 7, 185, 197>>, 431, 26, 2, <<1, 1, 1, 2, 1, 9,
        200000>>, TRUE>>, <<316173, <<243, 44, 123, 177, 218, 48, 227, 209>>, 431, 4, 2, <<7, 0,
        6, 0, 1, 9, 200000>>, TRUE>>, <<316789, <<139, 42, 75, 207, 81, 183, 217, 212>>,
        -2147483646, 2, 1, <<0, 2, 0, 1, 1, 9, 200000>>, TRUE>>, <<316796, <<124, 213, 228, 110,
        95, 127, 29, 93>>, 19984, 2, 2, <<1, 3, 1, 2, 1, 9, 200000>>, TRUE>>, <<316833, <<161,
        213, 180, 93, 173, 141, 76, 117>>, -2147483646, 1, 1, <<0, 6, 1, 6, 1, 9, 90000>>,
        TRUE>>, <<317397, <<213, 215, 116, 129, 158, 74, 113, 24>>, -431, 9, 1, <<5, 3, 4, 3, 3,
        9, 200000>>, TRUE>>, <<317475, <<35, 216, 148, 182, 92, 134, 19, 100>>, 431, 22, 2, <<1,
        1, 1, 2, 1, 9, 200000>>, TRUE>>, <<317826, <<126, 38, 107, 234, 220, 40, 57, 135>>,
        -19983, 3, 2, <<3, 0, 2, 0, 1, 9, 200000>>, TRUE>>, <<318486, <<234, 35, 171, 200, 77,
        155, 250, 202>>, 431, 7, 2, <<7, 3, 6, 3, 3, 9, 200000>>, TRUE>>, <<318857, <<119, 34,
        43, 113, 96, 203, 219, 185>>, -431, 11, 1, <<3, 3, 2, 3, 3, 9, 200000>>, TRUE>>,
        <<319425, <<193, 223, 180, 69, 132, 195, 192, 101>>, -2147483646, 2, 1, <<3, 3, 2, 3, 1,
        9, 200000>>, TRUE>>, <<320150, <<106, 29, 107, 18, 65, 144, 197, 154>>, -2147483646, 2,
        1, <<6, 3, 5, 3, 3, 9, 200000>>, TRUE>>, <<320216, <<40, 29, 59, 157, 203, 70, 29,
        135>>, 2147483646, 11, 2, <<5, 3, 4, 3, 1, 9, 200000>>, TRUE>>, <<321022, <<254, 229,
        100, 37, 173, 246, 32, 52>>, -431, 8, 1, <<5, 6, 6, 6, 1, 9, 200000>>, TRUE>>, <<322113,
        <<65, 234, 244, 101, 185, 91, 2, 1>>, -2147483646, 20, 1, <<1, 4, 1, 5, 1, 9, 200000>>,
        TRUE>>, <<322130, <<82, 234, 180, 238, 187, 75, 84, 104>>, -431, 13, 1, <<2, 6, 1, 6, 1,
        9, 200000>>, TRUE>>, <<322283, <<21, 21, 91, 179, 73, 230, 142, 159>>, -2147483646, 18,
        1, <<3, 0, 2, 0, 1, 9, 200000>>, TRUE>>, <<322346, <<214, 20, 27, 5, 83, 112, 208,
        239>>, 2147483646, 5, 2, <<1, 3, 2, 3, 1, 9, 200000>>, TRUE>>, <<322485, <<181, 235, 4,
        202, 227, 51, 33, 34>>, 19970, 5, 1, <<7, 4, 7, 3, 1, 9, 33>>, TRUE>>, <<322538, <<22,
        20, 219, 181, 53, 99, 173, 187>>, 2147483646, 3, 2, <<8, 4, 7, 4, 1, 9, 200000>>,
        TRUE>>, <<322740, <<180, 236, 196, 125, 120, 36, 70, 1>>, 19968, 2, 1, <<5, 0, 4, 0, 3,
        9, 286>>, TRUE>>, <<323675, <<165, 15, 155, 8, 158, 44, 100, 236>>, -431, 2, 1, <<8, 1,
        8, 2, 3, 9, 200000>>, TRUE>>, <<324112, <<240, 13, 75, 21, 166, 33, 202, 209>>, -431, 3,
        1, <<6, 6, 5, 6, 1, 9, 200000>>, TRUE>>, <<325004, <<116, 10, 91, 248, 22, 60, 189,
        171>>, 431, 3, 2, <<8, 5, 8, 4, 3, 9, 200000>>, TRUE>>, <<325273, <<153, 246, 100, 176,
        70, 120, 155, 67>>, -2147483646, 26, 1, <<0, 0, 0, 1, 1, 9, 200000>>, TRUE>>, <<325395,
        <<237, 8, 155, 77, 39, 43, 205, 235>>, 1, 9, 1, <<2, 0, 3, 0, 1, 9, 200000>>, TRUE>>,
        <<326333, <<67, 5, 203, 217, 144, 2, 198, 169>>, -19987, 15, 2, <<1, 2, 1, 3, 3, 9,
        200000>>, TRUE>>, <<326655, <<1, 4, 43, 84, 60, 206, 166, 156>>, -2147483646, 8, 1, <<7,
        1, 6, 1, 1, 9, 200000>>, TRUE>>, <<326807, <<105, 3, 203, 168, 72, 197, 48, 164>>,
        -19987, 22, 2, <<0, 2, 0, 3, 3, 9, 200000>>, TRUE>>, <<326853, <<59, 3, 59, 64, 184,
        249, 49, 226>>, 431, 22, 2, <<0, 0, 0, 1, 1, 9, 200000>>, TRUE>>, <<327226, <<58, 254,
        212, 59, 12, 202, 252, 126>>, -345, 2, 0, <<6, 1, 6, 0, 1, 9, 200000>>, TRUE>>,
        <<327360, <<192, 254, 244, 78, 198, 93, 197, 63>>, 431, 2, 2, <<1, 6, 2, 6, 3, 9,
        90000>>, TRUE>>, <<327790, <<110, 0, 69, 176, 70, 169, 136, 65>>, -2147483646, 9, 1,
        <<3, 3, 2, 3, 3, 9, 200000>>, TRUE>>, <<328423, <<25, 253, 154, 82, 109, 139, 229,
        198>>, 2147483646, 3, 2, <<7, 3, 6, 3, 3, 9, 200000>>, TRUE>>, <<328698, <<250, 3, 245,
        205, 120, 201, 24, 27>>, -2147483646, 9, 1, <<1, 3, 2, 3, 3, 9, 200000>>, TRUE>>,
        <<329390, <<82, 249, 186, 8, 158, 253, 119, 238>>, -431, 3, 1, <<0, 0, 1, 0, 1, 9,
        200000>>, TRUE>>, <<330273, <<33, 10, 69, 174, 151, 80, 116, 52>>, 431, 16, 2, <<2, 6,
        1, 6, 1, 9, 200000>>, TRUE>>, <<330571, <<181, 244, 138, 172, 212, 181, 1, 242>>,
        2147483646, 1, 2, <<7, 2, 7, 3, 3, 9, 200000>>, TRUE>>, <<331175, <<167, 13, 245, 223,
        42, 246, 25, 124>>, -19975, 16, 2, <<2, 2, 1, 2, 3, 9, 200000>>, TRUE>>, <<331552, <<32,
        15, 5, 97, 61, 204, 248, 93>>, -431, 1, 1, <<5, 6, 4, 6, 1, 9, 90000>>, TRUE>>,
        <<331613, <<163, 240, 106, 142, 140, 56, 119, 191>>, -2147483646, 3, 1, <<2, 0, 3, 0, 1,
        9, 200000>>, TRUE>>, <<332224, <<192, 17, 53, 152, 42, 12, 249, 2>>, 1, 8, 1, <<4, 3, 3,
        3, 3, 9, 200000>>, TRUE>>, <<332516, <<228, 18, 229, 110, 109, 107, 26, 123>>, 0, 1, 1,
        <<2, 1, 2, 0, 1, 9, 90000>>, TRUE>>, <<333164, <<108, 21, 101, 143, 147, 76, 193, 33>>,
        432, 14, 1, <<1, 2, 0, 2, 3, 9, 200000>>, TRUE>>, <<333302, <<10, 234, 26, 19, 18, 102,
        70, 139>>, -431, 1, 1, <<6, 5, 7, 5, 1, 9, 327>>, TRUE>>, <<334429, <<93, 26, 213, 101,
        109, 221, 238, 67>>, -19987, 24, 2, <<1, 4, 0, 4, 3, 9, 200000>>, TRUE>>, <<334490,
        <<154, 26, 133, 184, 81, 128, 163, 93>>, -431, 25, 2, <<1, 1, 2, 1, 1, 9, 200000>>,
        TRUE>>, <<335450, <<90, 30, 181, 137, 11, 74, 70, 71>>, 431, 13, 2, <<7, 2, 7, 3, 3, 9,
        200000>>, TRUE>>, <<336550, <<90, 221, 186, 155, 74, 220, 24, 153>>, 0, 18, 2, <<1, 4,
        2, 4, 1, 9, 200000>>, TRUE>>, <<336555, <<171, 34, 5, 193, 191, 194, 78, 26>>, -19983,
        6, 2, <<0, 2, 0, 3, 3, 9, 200000>>, TRUE>>, <<336725, <<171, 220, 58, 171, 75, 68, 157,
        177>>, 431, 1, 2, <<6, 3, 5, 3, 1, 9, 200000>>, TRUE>>, <<337277, <<125, 37, 213, 132,
        180, 197, 70, 97>>, -2147483646, 3, 1, <<5, 3, 4, 3, 1, 9, 200000>>, TRUE>>, <<338168,
        <<248, 40, 229, 107, 180, 93, 178, 56>>, -431, 19, 1, <<1, 4, 1, 3, 1, 9, 200000>>,
        TRUE>>, <<338209, <<33, 41, 117, 251, 94, 125, 125, 125>>, -2147483646, 2, 1, <<0, 1, 0,
        2, 1, 9, 200000>>, TRUE>>, <<338696, <<8, 43, 165, 40, 158, 55, 93, 86>>, 431, 3, 2,
        <<8, 5, 8, 4, 3, 9, 200000>>, TRUE>>, <<339573, <<139, 209, 122, 209, 217, 7, 154,
        174>>, -431, 14, 1, <<7, 2, 8, 2, 3, 9, 200000>>, TRUE>>, <<340568, <<88, 50, 133, 39,
        99, 133, 220, 49>>, -2147483646, 4, 1, <<3, 3, 4, 3, 3, 9, 200000>>, TRUE>>, <<340724,
        <<244, 50, 37, 19, 150, 141, 74, 34>>, -431, 31, 0, <<1, 2, 1, 3, 1, 9, 200000>>,
        TRUE>>, <<341145, <<103, 203, 202, 130, 151, 114, 132, 157>>, -431, 2, 1, <<2, 6, 2, 5,
        3, 9, 697>>, TRUE>>, <<341727, <<33, 201, 154, 197, 255, 77, 230, 230>>, -2147483646,
        10, 1, <<6, 1, 6, 0, 1, 9, 200000>>, TRUE>>, <<342022, <<250, 199, 218, 215, 157, 4,
        118, 144>>, -2147483646, 2, 1, <<5, 3, 6, 3, 3, 9, 200000>>, TRUE>>, <<342186, <<86,
        199, 122, 227, 104, 12, 224, 131>>, 2147483646, 4, 2, <<1, 2, 1, 3, 1, 9, 200000>>,
        TRUE>>, <<343124, <<84, 60, 197, 77, 67, 77, 253, 122>>, -19975, 7, 2, <<7, 1, 6, 1, 1,
        9, 200000>>, TRUE>>, <<343143, <<153, 195, 90, 136, 97, 128, 218, 150>>, -431, 5, 1,
        <<6, 3, 7, 3, 3, 9, 200000>>, TRUE>>, <<343417, <<135, 194, 42, 158, 214, 224, 121,
        252>>, -19987, 26, 2, <<2, 2, 1, 2, 3, 9, 200000>>, TRUE>>, <<343565, <<243, 193, 106,
        254, 58, 152, 27, 182>>, 0, 5, 1, <<6, 2, 6, 3, 3, 9, 200000>>, TRUE>>, <<343678, <<130,
        193, 42, 78, 181, 255, 129, 219>>, -431, 21, 2, <<0, 0, 1, 0, 1, 9, 200000>>, TRUE>>,
        <<343867, <<197, 192, 218, 136, 22, 59, 71, 221>>, 2147483646, 3, 2, <<0, 0, 0, 1, 3, 9,
        200000>>, TRUE>>, <<343907, <<99, 63, 37, 24, 96, 111, 117, 31>>, -431, 21, 2, <<1, 4,
        2, 4, 3, 9, 200000>>, TRUE>>, <<344162, <<158, 191, 218, 225, 192, 186, 223, 151>>,
        -19983, 1, 1, <<2, 2, 2, 3, 1, 9, 90000>>, TRUE>>, <<344834, <<2, 67, 197, 183, 254,
        178, 69, 9>>, 19968, 6, 1, <<5, 0, 6, 0, 3, 9, 200000>>, TRUE>>, <<345534, <<190, 69,
        197, 249, 8, 229, 252, 61>>, -431, 1, 1, <<6, 4, 6, 3, 1, 9, 458>>, TRUE>>, <<347321,
        <<185, 76, 149, 219, 219, 251, 79, 110>>, -2147483646, 12, 1, <<2, 2, 2, 3, 1, 9,
        200000>>, TRUE>>, <<347895, <<9, 177, 154, 215, 35, 6, 122, 138>>, 1, 5, 1, <<2, 0, 3,
        0, 1, 9, 13600>>, TRUE>>, <<348335, <<81, 175, 250, 220, 215, 26, 187, 136>>,
        -2147483646, 2, 1, <<2, 3, 2, 2, 1, 9, 200000>>, TRUE>>, <<348847, <<175, 82, 229, 0,
        164, 36, 178, 65>>, -2147483646, 3, 1, <<0, 2, 0, 1, 1, 9, 200000>>, TRUE>>, <<348860,
        <<188, 82, 5, 66, 167, 76, 245, 103>>, 431, 21, 2, <<5, 3, 6, 3, 3, 9, 200000>>, TRUE>>,
        <<349081, <<153, 83, 85, 118, 136, 135, 238, 42>>, -2147483646, 1, 1, <<0, 4, 1, 4, 1,
        9, 90000>>, TRUE>>, <<349101, <<173, 83, 213, 80, 163, 41, 141, 118>>, -2147483646, 3,
        1, <<6, 3, 5, 3, 1, 9, 200000>>, TRUE>>, <<349339, <<101, 171, 90, 116, 48, 244, 190,
        236>>, -19971, 1, 2, <<1, 3, 0, 3, 3, 9, 119995>>, TRUE>>, <<350434, <<30, 167, 90, 178,
        89, 205, 95, 198>>, -2147483646, 27, 1, <<3, 3, 2, 3, 3, 9, 200000>>, TRUE>>, <<350885,
        <<91, 165, 42, 71, 129, 40, 10, 186>>, 431, 6, 2, <<1, 3, 2, 3, 1, 9, 200000>>, TRUE>>,
        <<351462, <<230, 92, 5, 40, 116, 221, 106, 3>>, -19971, 2, 2, <<7, 4, 7, 5, 1, 9, 517>>,
        TRUE>>, <<351674, <<70, 162, 90, 81, 222, 8, 197, 190>>, -19991, 27, 2, <<3, 0, 4, 0, 1,
        9, 200000>>, TRUE>>, <<352570, <<198, 158, 218, 99, 194, 97, 233, 197>>, -2147483646,
        15, 1, <<2, 3, 1, 3, 3, 9, 200000>>, TRUE>>, <<352825, <<57, 98, 149, 110, 61, 12, 142,
        31>>, -2147483646, 3, 1, <<1, 5, 1, 4, 1, 9, 200000>>, TRUE>>, <<353235, <<45, 156, 90,
        66, 228, 186, 40, 182>>, -19991, 18, 2, <<1, 4, 1, 3, 3, 9, 200000>>, TRUE>>, <<353572,
        <<36, 101, 21, 41, 5, 189, 129, 37>>, -383, 1, 1, <<3, 3, 4, 3, 1, 9, 0>>, TRUE>>,
        <<354464, <<160, 104, 5, 71, 126, 122, 93, 36>>, 431, 13, 2, <<6, 4, 6, 3, 3, 9,
        200000>>, TRUE>>, <<354556, <<252, 104, 5, 184, 106, 4, 139, 27>>, 432, 12, 1, <<2, 2,
        2, 1, 3, 9, 200000>>, TRUE>>, <<354939, <<123, 106, 245, 6, 125, 62, 106, 58>>, 431, 6,
        2, <<6, 0, 5, 0, 1, 9, 200000>>, TRUE>>, <<355071, <<1, 149, 74, 146, 199, 215, 31,
        237>>, -19983, 19, 2, <<0, 4, 0, 3, 3, 9, 200000>>, TRUE>>, <<355172, <<100, 107, 117,
        197, 223, 131, 230, 110>>, -431, 3, 1, <<0, 5, 1, 5, 1, 9, 200000>>, TRUE>>, <<355373,
        <<45, 108, 229, 138, 132, 97, 234, 126>>, -431, 2, 1, <<7, 4, 7, 3, 3, 9, 200000>>,
        TRUE>>, <<356439, <<169, 143, 234, 121, 122, 203, 69, 247>>, 19968, 1, 1, <<7, 3, 8, 3,
        1, 9, 179>>, TRUE>>, <<357061, <<197, 114, 5, 139, 93, 210, 199, 7>>, -431, 22, 1, <<7,
        2, 8, 2, 3, 9, 200000>>, TRUE>>, <<357777, <<111, 138, 10, 161, 218, 168, 32, 212>>,
        432, 7, 1, <<2, 5, 1, 5, 1, 9, 200000>>, TRUE>>, <<357990, <<154, 137, 186, 6, 31, 27,
        73, 233>>, 0, 7, 1, <<4, 0, 3, 0, 1, 9, 200000>>, TRUE>>, <<358200, <<56, 119, 21, 105,
        46, 231, 75, 7>>, 431, 3, 2, <<2, 4, 2, 3, 3, 9, 90000>>, TRUE>>, <<358494, <<162, 135,
        58, 251, 87, 35, 153, 140>>, -431, 3, 1, <<1, 6, 1, 5, 1, 9, 200000>>, TRUE>>, <<358575,
        <<81, 135, 250, 19, 74, 229, 204, 157>>, -19987, 16, 2, <<1, 3, 0, 3, 3, 9, 200000>>,
        TRUE>>, <<358642, <<14, 135, 154, 207, 162, 43, 15, 159>>, 0, 17, 2, <<6, 4, 6, 3, 3, 9,
        200000>>, TRUE>>, <<359549, <<131, 131, 122, 2, 88, 48, 184, 197>>, -1, 2, 2, <<7, 4, 7,
        3, 3, 9, 200000>>, TRUE>>, <<359633, <<47, 131, 218, 54, 173, 56, 46, 214>>,
        -2147483646, 1, 1, <<1, 6, 1, 5, 1, 9, 90000>>, TRUE>>, <<360334, <<142, 127, 245, 1,
        64, 214, 142, 80>>, -19983, 2, 1, <<3, 6, 4, 6, 1, 9, 200000>>, TRUE>>, <<360653, <<51,
        127, 122, 85, 164, 228, 183, 142>>, -431, 5, 1, <<2, 1, 2, 2, 3, 9, 200000>>, TRUE>>,
        <<361038, <<78, 130, 85, 58, 92, 254, 35, 72>>, 431, 1, 2, <<8, 4, 8, 5, 3, 9, 90000>>,
        TRUE>>, <<361403, <<187, 131, 229, 81, 77, 87, 63, 114>>, 19968, 1, 1, <<7, 3, 8, 3, 1,
        9, 172>>, TRUE>>, <<363246, <<238, 138, 133, 214, 140, 204, 43, 59>>, -2147483646, 19,
        1, <<2, 2, 1, 2, 3, 9, 200000>>, TRUE>>, <<364522, <<22, 112, 186, 241, 89, 134, 152,
        213>>, -431, 1, 1, <<6, 5, 7, 5, 1, 9, 90000>>, TRUE>>, <<365265, <<47, 109, 122, 21,
        143, 190, 125, 172>>, -2147483646, 3, 1, <<3, 3, 4, 3, 1, 9, 200000>>, TRUE>>, <<366535,
        <<199, 151, 181, 77, 181, 235, 62, 35>>, -19991, 24, 2, <<1, 2, 1, 3, 3, 9, 200000>>,
        TRUE>>, <<366730, <<118, 103, 122, 237, 232, 31, 156, 235>>, -19987, 23, 2, <<0, 5, 0,
        4, 1, 9, 200000>>, TRUE>>, <<367368, <<248, 100, 90, 45, 139, 151, 158, 179>>, 431, 5,
        2, <<6, 6, 5, 6, 3, 9, 200000>>, TRUE>>, <<367425, <<65, 155, 229, 230, 17, 143, 122,
        111>>, 2147483646, 4, 2, <<3, 6, 2, 6, 3, 9, 200000>>, TRUE>>, <<367454, <<94, 155, 229,
        121, 92, 47, 119, 91>>, -431, 4, 1, <<7, 5, 7, 4, 1, 9, 200000>>, TRUE>>, <<368757,
        <<139, 95, 90, 94, 191, 27, 148, 175>>, -2147483646, 18, 1, <<0, 4, 0, 5, 1, 9,
        200000>>, TRUE>>, <<368876, <<236, 160, 69, 116, 218, 88, 109, 6>>, 0, 3, 2, <<7, 5, 8,
        5, 3, 9, 200000>>, TRUE>>, <<369599, <<65, 92, 10, 149, 80, 54, 237, 252>>, -431, 3, 1,
        <<3, 0, 4, 0, 3, 9, 200000>>, TRUE>>, <<370533, <<155, 88, 138, 124, 157, 0, 167, 162>>,
        -19987, 16, 2, <<1, 5, 1, 4, 3, 9, 200000>>, TRUE>>, <<370741, <<53, 168, 213, 32, 201,
        225, 192, 67>>, 431, 1, 2, <<7, 5, 7, 4, 1, 9, 717>>, TRUE>>, <<371333, <<133, 170, 229,
        42, 179, 250, 67, 106>>, 431, 24, 2, <<2, 2, 2, 3, 1, 9, 200000>>, TRUE>>, <<371594,
        <<138, 171, 165, 57, 120, 218, 130, 127>>, -431, 6, 1, <<4, 6, 5, 6, 1, 9, 200000>>,
        TRUE>>, <<371842, <<130, 172, 133, 7, 187, 23, 52, 76>>, -431, 4, 1, <<7, 6, 7, 5, 1, 9,
        200000>>, TRUE>>, <<372308, <<84, 174, 85, 121, 233, 148, 191, 59>>, 0, 16, 1, <<3, 0,
        4, 0, 1, 9, 200000>>, TRUE>>, <<372492, <<244, 80, 10, 0, 67, 65, 16, 134>>, -431, 2, 1,
        <<7, 4, 7, 3, 1, 9, 200000>>, TRUE>>, <<372503, <<23, 175, 37, 11, 158, 233, 200, 22>>,
        -1, 2, 2, <<8, 1, 8, 2, 3, 9, 200000>>, TRUE>>, <<373314, <<66, 178, 245, 185, 130, 149,
        234, 116>>, 431, 7, 2, <<7, 2, 7, 3, 3, 9, 200000>>, TRUE>>, <<374445, <<173, 182, 181,
        199, 220, 61, 183, 0>>, -431, 6, 1, <<7, 2, 7, 3, 3, 9, 200000>>, TRUE>>, <<376327,
        <<249, 65, 26, 99, 225, 81, 10, 196>>, 0, 1, 2, <<4, 0, 3, 0, 1, 9, 15868>>, TRUE>>,
        <<376650, <<74, 191, 117, 76, 184, 182, 37, 61>>, -19975, 17, 2, <<5, 0, 4, 0, 1, 9,
        200000>>, TRUE>>, <<377547, <<203, 194, 117, 202, 174, 28, 240, 115>>, -2147483646, 1,
        1, <<6, 1, 6, 0, 1, 9, 22>>, TRUE>>, <<377592, <<8, 61, 218, 135, 119, 40, 22, 204>>,
        -2147483646, 1, 1, <<0, 0, 0, 1, 3, 9, 2471>>, TRUE>>, <<377768, <<168, 195, 133, 254,
        221, 253, 185, 113>>, 19970, 6, 1, <<0, 0, 0, 1, 3, 9, 200000>>, TRUE>>, <<379292,
        <<156, 201, 21, 86, 136, 145, 203, 80>>, -1, 3, 2, <<4, 0, 3, 0, 1, 9, 200000>>, TRUE>>,
        <<379483, <<165, 53, 234, 22, 227, 125, 40, 179>>, -19987, 22, 2, <<0, 4, 0, 3, 3, 9,
        200000>>, TRUE>>, <<379496, <<104, 202, 197, 65, 228, 174, 151, 78>>, -19991, 19, 2,
        <<0, 0, 0, 1, 1, 9, 200000>>, TRUE>>, <<379642, <<6, 53, 58, 213, 21, 24, 120, 226>>,
        -431, 3, 1, <<1, 2, 2, 2, 1, 9, 200000>>, TRUE>>, <<379767, <<137, 52, 202, 23, 49, 62,
        99, 138>>, -19987, 15, 2, <<1, 2, 1, 3, 3, 9, 200000>>, TRUE>>, <<380385, <<225, 205,
        101, 214, 13, 4, 97, 51>>, -19991, 26, 2, <<1, 3, 0, 3, 3, 9, 200000>>, TRUE>>,
        <<381917, <<35, 44, 42, 3, 23, 116, 31, 194>>, 431, 14, 2, <<6, 1, 6, 0, 1, 9, 200000>>,
        TRUE>>, <<382290, <<174, 42, 154, 142, 78, 6, 237, 234>>, -1, 3, 2, <<4, 0, 3, 0, 1, 9,
        200000>>, TRUE>>, <<382389, <<75, 42, 234, 221, 67, 30, 131, 204>>, 431, 11, 2, <<6, 6,
        7, 6, 1, 9, 90000>>, TRUE>>, <<382617, <<103, 41, 170, 44, 23, 142, 14, 227>>, -431, 1,
        1, <<8, 1, 8, 2, 3, 9, 231>>, TRUE>>, <<383126, <<150, 216, 117, 149, 239, 126, 86,
        123>>, 431, 5, 2, <<8, 4, 8, 5, 3, 9, 200000>>, TRUE>>, <<383374, <<142, 217, 53, 244,
        192, 217, 236, 61>>, -431, 17, 1, <<3, 3, 2, 3, 1, 9, 200000>>, TRUE>>, <<383656, <<168,
        218, 165, 93, 201, 73, 42, 89>>, -431, 1, 1, <<1, 4, 1, 5, 1, 9, 90000>>, TRUE>>,
        <<383872, <<128, 36, 154, 136, 93, 198, 120, 255>>, -431, 21, 1, <<0, 0, 1, 0, 1, 9,
        200000>>, TRUE>>, <<384943, <<81, 32, 58, 132, 125, 124, 140, 216>>, 19970, 3, 1, <<8,
        4, 8, 3, 1, 9, 200000>>, TRUE>>, <<385001, <<233, 223, 181, 45, 189, 159, 41, 109>>,
        432, 11, 1, <<6, 6, 7, 6, 1, 9, 200000>>, TRUE>>, <<385402, <<134, 30, 138, 128, 194,
        29, 215, 180>>, -2147483646, 3, 1, <<1, 4, 1, 3, 3, 9, 200000>>, TRUE>>, <<386267, <<37,
        27, 234, 163, 5, 138, 233, 194>>, -432, 1, 2, <<1, 1, 1, 0, 3, 9, 200000>>, TRUE>>,
        <<386450, <<146, 229, 85, 227, 11, 54, 80, 14>>, -431, 19, 1, <<3, 6, 4, 6, 1, 9,
        200000>>, TRUE>>, <<387425, <<159, 22, 26, 127, 228, 57, 123, 187>>, 431, 24, 2, <<2, 0,
        3, 0, 1, 9, 200000>>, TRUE>>, <<388008, <<88, 20, 10, 130, 180, 66, 103, 156>>, -431, 6,
        1, <<7, 5, 7, 6, 1, 9, 200000>>, TRUE>>, <<388125, <<29, 236, 53, 95, 255, 81, 120,
        48>>, 432, 2, 1, <<2, 6, 2, 5, 1, 9, 1273>>, TRUE>>, <<388327, <<231, 236, 85, 154, 69,
        42, 220, 64>>, 0, 7, 1, <<6, 1, 7, 1, 3, 9, 200000>>, TRUE>>, <<388402, <<50, 237, 133,
        15, 219, 4, 88, 125>>, 0, 9, 1, <<1, 0, 2, 0, 1, 9, 200000>>, TRUE>>, <<388681, <<183,
        17, 58, 106, 60, 140, 248, 214>>, -19987, 24, 2, <<1, 2, 0, 2, 3, 9, 200000>>, TRUE>>,
        <<389144, <<232, 15, 250, 229, 79, 85, 98, 158>>, 431, 5, 2, <<6, 2, 6, 3, 3, 9,
        200000>>, TRUE>>, <<389230, <<110, 240, 213, 73, 123, 117, 56, 5>>, 431, 3, 2, <<7, 2,
        7, 3, 3, 9, 200000>>, TRUE>>, <<389856, <<224, 242, 165, 90, 33, 228, 85, 69>>, 431, 1,
        2, <<1, 5, 1, 4, 3, 9, 26465>>, TRUE>>, <<392024, <<88, 251, 5, 79, 227, 115, 191, 99>>,
        431, 5, 2, <<1, 2, 1, 3, 3, 9, 200000>>, TRUE>>, <<393112, <<152, 255, 53, 126, 185,
        185, 90, 121>>, -431, 21, 1, <<1, 1, 0, 1, 1, 9, 200000>>, TRUE>>, <<393840, <<144, 253,
        233, 0, 186, 251, 208, 185>>, 431, 7, 2, <<8, 5, 8, 4, 3, 9, 200000>>, TRUE>>, <<394010,
        <<230, 252, 233, 118, 249, 104, 194, 169>>, 431, 23, 2, <<7, 3, 6, 3, 3, 9, 200000>>,
        TRUE>>, <<395777, <<255, 245, 233, 24, 119, 93, 0, 199>>, -1, 2, 2, <<5, 0, 4, 0, 3, 9,
        200000>>, TRUE>>, <<396064, <<224, 244, 153, 80, 250, 37, 148, 216>>, 431, 2, 2, <<2, 2,
        2, 3, 3, 9, 200000>>, TRUE>>, <<397063, <<7, 15, 214, 63, 162, 23, 179, 41>>, 431, 3, 2,
        <<6, 5, 7, 5, 1, 9, 90000>>, TRUE>>, <<398054, <<230, 18, 54, 24, 153, 103, 186, 102>>,
        -431, 7, 1, <<3, 6, 4, 6, 1, 9, 200000>>, TRUE>>, <<398152, <<72, 19, 118, 254, 37, 57,
        144, 18>>, 431, 27, 2, <<7, 3, 7, 2, 3, 9, 200000>>, TRUE>>, <<398258, <<78, 236, 105,
        235, 61, 168, 67, 169>>, 431, 29, 2, <<6, 3, 7, 3, 3, 9, 200000>>, TRUE>>, <<398308,
        <<228, 19, 214, 202, 208, 49, 6, 1>>, -431, 11, 1, <<1, 6, 1, 5, 1, 9, 200000>>, TRUE>>,
        <<398644, <<204, 234, 137, 101, 103, 129, 112, 149>>, -431, 29, 0, <<1, 3, 1, 4, 1, 9,
        200000>>, TRUE>>, <<398645, <<53, 21, 230, 205, 73, 227, 98, 53>>, -2147483646, 16, 1,
        <<0, 6, 1, 6, 1, 9, 200000>>, TRUE>>, <<398992, <<144, 22, 6, 183, 152, 143, 196, 23>>,
        0, 9, 1, <<2, 0, 3, 0, 1, 9, 90000>>, TRUE>>, <<399465, <<105, 24, 150, 49, 102, 42,
        255, 89>>, -431, 11, 1, <<1, 1, 0, 1, 3, 9, 200000>>, TRUE>>, <<399714, <<98, 25, 166,
        75, 191, 173, 142, 46>>, -431, 2, 1, <<2, 3, 2, 2, 1, 9, 200000>>, TRUE>>, <<399949,
        <<77, 26, 214, 108, 67, 245, 53, 61>>, -432, 4, 2, <<2, 0, 1, 0, 3, 9, 106>>, TRUE>>,
        <<400456, <<184, 227, 137, 220, 255, 100, 33, 213>>, -431, 9, 1, <<4, 6, 3, 6, 1, 9,
        200000>>, TRUE>>, <<401623, <<41, 223, 201, 126, 190, 19, 164, 222>>, -1, 3, 2, <<6, 5,
        6, 6, 3, 9, 33>>, TRUE>>, <<401857, <<63, 222, 73, 179, 218, 101, 4, 165>>, 2147483646,
        3, 2, <<5, 3, 4, 3, 3, 9, 200000>>, TRUE>>, <<401874, <<210, 33, 22, 93, 245, 29, 82,
        113>>, -431, 15, 1, <<4, 3, 3, 3, 1, 9, 200000>>, TRUE>>, <<401991, <<185, 221, 121,
        195, 28, 167, 179, 207>>, -2147483646, 2, 1, <<0, 1, 0, 0, 1, 9, 200000>>, TRUE>>,
        <<402267, <<165, 220, 201, 191, 222, 63, 63, 246>>, -2147483646, 13, 1, <<1, 5, 1, 4, 1,
        9, 200000>>, TRUE>>, <<402281, <<105, 35, 150, 90, 133, 176, 40, 123>>, 431, 4, 2, <<5,
        0, 4, 0, 1, 9, 200000>>, TRUE>>, <<402447, <<241, 219, 9, 133, 221, 17, 90, 142>>, -1,
        1, 2, <<8, 2, 7, 2, 3, 9, 15426>>, TRUE>>, <<402608, <<176, 36, 54, 168, 253, 160, 26,
        92>>, -2147483646, 1, 1, <<1, 4, 1, 3, 3, 9, 200000>>, TRUE>>, <<402893, <<51, 218, 57,
        137, 223, 167, 213, 249>>, -2147483646, 8, 1, <<6, 2, 6, 1, 1, 9, 200000>>, TRUE>>,
        <<402924, <<236, 37, 86, 36, 155, 151, 16, 21>>, -19975, 11, 2, <<6, 0, 5, 0, 1, 9,
        200000>>, TRUE>>, <<403719, <<7, 41, 150, 79, 32, 190, 149, 87>>, -2147483646, 3, 1,
        <<1, 5, 0, 5, 1, 9, 200000>>, TRUE>>, <<404381, <<157, 43, 22, 67, 36, 228, 174, 4>>,
        -19983, 17, 2, <<3, 3, 2, 3, 3, 9, 200000>>, TRUE>>, <<405167, <<81, 209, 121, 65, 36,
        200, 147, 234>>, 0, 5, 1, <<8, 4, 8, 5, 3, 9, 200000>>, TRUE>>, <<405372, <<132, 208,
        169, 212, 186, 230, 23, 215>>, 0, 14, 1, <<4, 0, 3, 0, 1, 9, 200000>>, TRUE>>, <<405583,
        <<177, 207, 73, 184, 51, 8, 146, 181>>, 431, 13, 2, <<5, 6, 4, 6, 1, 9, 200000>>,
        TRUE>>, <<405713, <<209, 48, 86, 84, 212, 24, 147, 75>>, 0, 11, 1, <<7, 5, 8, 5, 3, 9,
        200000>>, TRUE>>, <<406192, <<176, 50, 54, 65, 70, 237, 176, 57>>, 431, 7, 2, <<8, 5, 8,
        4, 3, 9, 200000>>, TRUE>>, <<406861, <<77, 53, 182, 219, 13, 168, 58, 98>>, 432, 9, 1,
        <<7, 6, 6, 6, 1, 9, 200000>>, TRUE>>, <<406952, <<88, 202, 105, 97, 68, 200, 245, 237>>,
        431, 17, 2, <<7, 2, 7, 3, 3, 9, 200000>>, TRUE>>, <<407092, <<204, 201, 41, 74, 168,
        118, 63, 234>>, 431, 1, 2, <<4, 6, 3, 6, 3, 9, 208>>, TRUE>>, <<407235, <<61, 201, 185,
        233, 143, 209, 62, 229>>, 0, 9, 1, <<7, 6, 8, 6, 3, 9, 200000>>, TRUE>>, <<407382, <<86,
        55, 198, 29, 217, 215, 97, 47>>, 431, 29, 2, <<6, 3, 7, 3, 3, 9, 200000>>, TRUE>>,
        <<408668, <<92, 60, 86, 54, 178, 31, 21, 114>>, -431, 3, 1, <<2, 5, 1, 5, 1, 9,
        200000>>, TRUE>>, <<409094, <<250, 193, 41, 87, 125, 205, 147, 163>>, -431, 4, 1, <<7,
        4, 7, 5, 1, 9, 200000>>, TRUE>>, <<409589, <<245, 63, 118, 150, 147, 101, 6, 18>>, -431,
        1, 1, <<6, 3, 7, 3, 3, 9, 67763>>, TRUE>>, <<409783, <<183, 64, 166, 67, 219, 101, 130,
        114>>, 432, 12, 1, <<5, 6, 4, 6, 1, 9, 200000>>, TRUE>>, <<409886, <<30, 65, 134, 106,
        1, 151, 55, 1>>, -19985, 2, 2, <<2, 5, 2, 4, 3, 1, 200000>>, TRUE>>, <<412019, <<141,
        182, 121, 152, 115, 0, 224, 172>>, -2147483646, 12, 1, <<4, 0, 3, 0, 1, 9, 200000>>,
        TRUE>>, <<412059, <<155, 73, 54, 13, 111, 14, 175, 18>>, 431, 10, 2, <<0, 4, 1, 4, 1, 9,
        200000>>, TRUE>>, <<414394, <<70, 173, 249, 203, 135, 129, 109, 164>>, 431, 7, 2, <<4,
        0, 5, 0, 3, 9, 80000>>, TRUE>>, <<414998, <<234, 170, 185, 223, 115, 250, 0, 210>>, -1,
        1, 2, <<6, 0, 6, 1, 1, 9, 57>>, TRUE>>, <<415094, <<138, 170, 249, 226, 207, 76, 252,
        198>>, -431, 1, 1, <<2, 2, 2, 3, 1, 9, 90000>>, TRUE>>, <<415393, <<161, 86, 86, 199,
        26, 34, 215, 74>>, -2147483646, 18, 1, <<1, 3, 2, 3, 1, 9, 200000>>, TRUE>>, <<415513,
        <<25, 87, 198, 61, 176, 3, 176, 68>>, 431, 2, 2, <<4, 6, 3, 6, 1, 9, 200000>>, TRUE>>,
        <<415983, <<239, 88, 38, 10, 114, 207, 210, 56>>, -431, 20, 2, <<2, 4, 2, 3, 3, 9,
        200000>>, TRUE>>, <<416342, <<86, 90, 118, 77, 204, 222, 47, 22>>, -431, 1, 1, <<5, 6,
        6, 6, 1, 9, 90000>>, TRUE>>, <<416349, <<163, 165, 217, 67, 153, 117, 243, 144>>,
        -2147483646, 2, 1, <<3, 0, 2, 0, 1, 9, 200000>>, TRUE>>, <<416515, <<3, 91, 134, 58, 51,
        160, 92, 45>>, 19970, 5, 1, <<7, 4, 7, 3, 1, 9, 200000>>, TRUE>>, <<416713, <<201, 91,
        246, 228, 149, 192, 117, 58>>, -2147483646, 2, 1, <<2, 3, 2, 2, 1, 9, 200000>>, TRUE>>,
        <<417157, <<133, 93, 118, 89, 108, 160, 180, 20>>, 431, 7, 2, <<2, 5, 1, 5, 1, 9,
        200000>>, TRUE>>, <<417360, <<80, 94, 166, 129, 50, 120, 79, 82>>, 0, 8, 1, <<3, 0, 2,
        0, 1, 9, 200000>>, TRUE>>, <<417388, <<148, 161, 169, 44, 6, 132, 243, 164>>,
        2147483646, 6, 2, <<0, 6, 0, 5, 1, 9, 200000>>, TRUE>>, <<418030, <<18, 159, 41, 108,
        54, 202, 72, 219>>, -431, 19, 1, <<0, 1, 0, 0, 1, 9, 200000>>, TRUE>>, <<418825, <<9,
        100, 38, 40, 149, 122, 62, 34>>, -2147483646, 1, 1, <<3, 0, 4, 0, 1, 9, 90000>>, TRUE>>,
        <<419094, <<234, 154, 73, 82, 234, 89, 92, 227>>, -431, 2, 1, <<2, 6, 1, 6, 1, 9,
        200000>>, TRUE>>, <<419159, <<169, 154, 121, 81, 63, 175, 145, 159>>, 19970, 5, 1, <<7,
        4, 7, 3, 1, 9, 83>>, TRUE>>, <<419274, <<202, 101, 102, 158, 143, 236, 96, 82>>, 0, 14,
        2, <<1, 3, 1, 4, 1, 9, 200000>>, TRUE>>, <<419455, <<129, 153, 137, 134, 230, 52, 183,
        202>>, -2147483646, 1, 1, <<6, 0, 5, 0, 1, 9, 90000>>, TRUE>>, <<420191, <<95, 105, 118,
        99, 234, 153, 122, 75>>, 2147483646, 1, 2, <<6, 4, 7, 4, 3, 9, 200000>>, TRUE>>,
        <<421060, <<60, 147, 153, 137, 173, 237, 231, 158>>, -431, 1, 1, <<6, 3, 5, 3, 1, 9,
        145>>, TRUE>>, <<421162, <<42, 109, 38, 13, 123, 134, 69, 112>>, 431, 5, 2, <<2, 5, 2,
        4, 3, 9, 200000>>, TRUE>>, <<421330, <<210, 109, 150, 174, 16, 130, 205, 17>>, 431, 7,
        2, <<7, 4, 7, 3, 3, 9, 200000>>, TRUE>>, <<422246, <<102, 113, 22, 190, 56, 10, 167,
        86>>, -431, 5, 1, <<0, 5, 1, 5, 1, 9, 200000>>, TRUE>>, <<422709, <<203, 140, 169, 1,
        131, 219, 171, 154>>, -431, 2, 1, <<7, 5, 8, 5, 3, 9, 200000>>, TRUE>>, <<422808, <<104,
        140, 121, 194, 117, 190, 251, 203>>, -19987, 23, 2, <<1, 2, 0, 2, 1, 9, 200000>>,
        TRUE>>, <<422851, <<195, 115, 102, 111, 165, 228, 135, 85>>, 431, 2, 2, <<7, 1, 6, 1, 1,
        9, 200000>>, TRUE>>, <<423084, <<84, 139, 57, 119, 220, 2, 151, 131>>, -2147483646, 1,
        1, <<2, 4, 2, 3, 3, 9, 32987>>, TRUE>>, <<423816, <<120, 136, 9, 182, 138, 51, 246,
        248>>, 431, 4, 2, <<4, 0, 3, 0, 3, 9, 200000>>, TRUE>>, <<424094, <<98, 135, 217, 10,
        203, 215, 114, 189>>, -431, 3, 1, <<6, 5, 7, 5, 1, 9, 318>>, TRUE>>, <<424123, <<187,
        120, 134, 36, 97, 18, 47, 72>>, 431, 3, 2, <<2, 3, 2, 2, 1, 9, 200000>>, TRUE>>,
        <<424286, <<162, 134, 9, 95, 234, 121, 133, 246>>, -431, 23, 1, <<2, 1, 2, 0, 1, 9,
        200000>>, TRUE>>, <<424969, <<247, 131, 137, 252, 150, 176, 240, 190>>, -19991, 20, 2,
        <<2, 4, 1, 4, 3, 9, 200000>>, TRUE>>, <<425370, <<154, 125, 230, 45, 30, 157, 193, 83>>,
        431, 2, 2, <<2, 6, 2, 5, 3, 9, 200000>>, TRUE>>, <<425719, <<247, 126, 6, 153, 152, 114,
        238, 102>>, 432, 8, 1, <<2, 5, 1, 5, 1, 9, 90000>>, TRUE>>, <<425804, <<180, 128, 121,
        1, 13, 152, 250, 179>>, 431, 2, 2, <<0, 1, 0, 2, 3, 9, 90000>>, TRUE>>, <<426067, <<173,
        127, 25, 129, 161, 39, 181, 158>>, 19968, 1, 1, <<7, 3, 8, 3, 1, 9, 178>>, TRUE>>,
        <<426077, <<93, 128, 182, 210, 212, 173, 140, 120>>, 431, 8, 2, <<5, 0, 6, 0, 1, 9,
        200000>>, TRUE>>, <<426341, <<155, 126, 233, 55, 254, 207, 51, 251>>, -431, 18, 1, <<5,
        3, 4, 3, 3, 9, 200000>>, TRUE>>, <<426496, <<0, 130, 6, 133, 227, 37, 142, 19>>, -431,
        2, 1, <<7, 6, 7, 5, 1, 9, 80000>>, TRUE>>, <<426713, <<217, 130, 246, 78, 99, 43, 228,
        54>>, 1, 13, 1, <<2, 0, 3, 0, 1, 9, 200000>>, TRUE>>, <<426912, <<96, 124, 217, 193,
        206, 210, 22, 191>>, -431, 6, 1, <<4, 6, 5, 6, 1, 9, 200000>>, TRUE>>, <<427231, <<33,
        123, 169, 217, 58, 54, 3, 171>>, 431, 2, 2, <<6, 0, 5, 0, 1, 9, 200000>>, TRUE>>,
        <<427604, <<84, 134, 22, 131, 153, 48, 83, 108>>, 0, 10, 1, <<2, 0, 3, 0, 1, 9,
        200000>>, TRUE>>, <<428292, <<252, 118, 105, 165, 18, 113, 18, 239>>, -431, 23, 0, <<2,
        5, 2, 6, 1, 9, 200000>>, TRUE>>, <<428396, <<108, 137, 86, 125, 190, 7, 27, 38>>, 0, 3,
        1, <<0, 0, 1, 0, 1, 9, 90000>>, TRUE>>, <<428857, <<57, 139, 182, 199, 0, 78, 153, 90>>,
        -431, 30, 2, <<3, 3, 2, 3, 3, 9, 200000>>, TRUE>>, <<428971, <<171, 139, 118, 109, 230,
        62, 121, 60>>, -431, 5, 1, <<1, 0, 1, 1, 3, 9, 200000>>, TRUE>>, <<429052, <<252, 139,
        230, 192, 28, 179, 12, 55>>, -2147483646, 2, 1, <<2, 1, 2, 2, 3, 9, 200000>>, TRUE>>,
        <<429219, <<163, 140, 86, 83, 37, 243, 207, 15>>, -431, 2, 1, <<4, 0, 3, 0, 3, 9, 213>>,
        TRUE>>, <<429644, <<180, 113, 41, 186, 199, 244, 254, 184>>, 431, 3, 2, <<0, 2, 0, 1, 3,
        9, 200000>>, TRUE>>, <<430468, <<132, 145, 22, 201, 23, 240, 20, 58>>, 431, 3, 2, <<5,
        6, 4, 6, 3, 9, 200000>>, TRUE>>, <<431873, <<1, 151, 214, 183, 9, 215, 44, 84>>, -19975,
        18, 2, <<2, 3, 2, 2, 3, 9, 200000>>, TRUE>>, <<433901, <<19, 97, 89, 30, 217, 195, 222,
        215>>, 431, 20, 2, <<0, 1, 0, 0, 1, 9, 200000>>, TRUE>>, <<434029, <<147, 96, 249, 255,
        175, 98, 170, 197>>, 431, 2, 2, <<0, 5, 1, 5, 1, 9, 1510>>, TRUE>>, <<434056, <<136,
        159, 102, 67, 248, 85, 97, 115>>, 431, 11, 2, <<2, 6, 2, 5, 3, 9, 200000>>, TRUE>>,
        <<434414, <<18, 95, 169, 1, 58, 0, 76, 205>>, -431, 10, 1, <<4, 6, 5, 6, 1, 9, 200000>>,
        TRUE>>, <<434489, <<57, 161, 6, 148, 163, 109, 103, 119>>, -2147483646, 3, 1, <<0, 5, 1,
        5, 1, 9, 200000>>, TRUE>>, <<434853, <<165, 162, 38, 45, 61, 173, 34, 82>>, -2147483646,
        24, 1, <<1, 0, 0, 0, 1, 9, 200000>>, TRUE>>, <<435334, <<122, 91, 153, 32, 183, 37, 56,
        220>>, -431, 3, 1, <<8, 1, 8, 0, 1, 9, 200000>>, TRUE>>, <<436114, <<110, 88, 217, 76,
        248, 102, 162, 129>>, 2147483646, 2, 2, <<0, 4, 0, 5, 1, 9, 200000>>, TRUE>>, <<436131,
        <<93, 88, 25, 10, 232, 231, 145, 188>>, -19971, 3, 2, <<2, 3, 1, 3, 3, 9, 90000>>,
        TRUE>>, <<437310, <<194, 83, 153, 216, 31, 195, 137, 179>>, 2147483646, 7, 2, <<2, 3, 3,
        3, 1, 9, 200000>>, TRUE>>, <<437644, <<116, 82, 249, 139, 90, 120, 57, 160>>, 0, 2, 1,
        <<1, 1, 1, 0, 1, 9, 200000>>, TRUE>>, <<438044, <<228, 80, 73, 54, 248, 204, 46, 177>>,
        -19989, 2, 2, <<2, 1, 1, 1, 3, 1, 119600>>, TRUE>>, <<439382, <<86, 180, 54, 2, 14, 29,
        254, 3>>, 0, 12, 1, <<3, 0, 4, 0, 1, 9, 200000>>, TRUE>>, <<439562, <<246, 74, 105, 123,
        164, 200, 81, 190>>, -431, 1, 1, <<7, 4, 7, 5, 1, 9, 90000>>, TRUE>>, <<439801, <<249,
        181, 70, 72, 224, 215, 130, 126>>, -431, 8, 1, <<8, 5, 8, 6, 3, 9, 200000>>, TRUE>>,
        <<440399, <<79, 184, 118, 138, 120, 63, 155, 8>>, -352, 1, 2, <<3, 3, 2, 3, 3, 9,
        200000>>, TRUE>>, <<440621, <<45, 185, 166, 253, 192, 60, 206, 6>>, -2147483646, 2, 1,
        <<6, 4, 6, 3, 1, 9, 200000>>, TRUE>>, <<441633, <<223, 66, 25, 227, 82, 58, 73, 160>>,
        -431, 11, 1, <<4, 3, 5, 3, 3, 9, 200000>>, TRUE>>, <<442685, <<195, 62, 9, 27, 52, 232,
        220, 231>>, 1, 8, 1, <<2, 2, 1, 2, 1, 9, 90000>>, TRUE>>, <<442804, <<76, 62, 249, 49,
        55, 50, 196, 206>>, -431, 2, 1, <<0, 6, 1, 6, 1, 9, 12281>>, TRUE>>, <<442868, <<244,
        193, 6, 228, 124, 108, 144, 30>>, -19979, 5, 2, <<7, 1, 6, 1, 3, 1, 200000>>, TRUE>>,
        <<442973, <<93, 194, 38, 68, 93, 22, 131, 126>>, -2147483646, 1, 1, <<2, 5, 2, 4, 1, 9,
        200000>>, TRUE>>, <<443009, <<129, 194, 22, 98, 169, 12, 11, 42>>, -431, 18, 1, <<5, 3,
        4, 3, 3, 9, 200000>>, TRUE>>, <<443031, <<151, 194, 118, 33, 182, 11, 109, 15>>,
        -2147483646, 1, 1, <<0, 4, 1, 4, 1, 9, 200000>>, TRUE>>, <<443373, <<19, 60, 169, 121,
        5, 35, 110, 245>>, -431, 7, 1, <<2, 2, 2, 3, 3, 9, 200000>>, TRUE>>, <<443821, <<83, 58,
        89, 255, 154, 245, 205, 224>>, 19972, 1, 1, <<8, 4, 8, 3, 1, 9, 90000>>, TRUE>>,
        <<443826, <<78, 58, 233, 214, 206, 243, 107, 189>>, 0, 3, 1, <<2, 2, 2, 1, 1, 9, 1271>>,
        TRUE>>, <<444637, <<35, 55, 73, 146, 87, 141, 161, 139>>, -19991, 30, 2, <<3, 3, 2, 3,
        3, 9, 200000>>, TRUE>>, <<444759, <<87, 201, 182, 111, 54, 222, 247, 35>>, -431, 20, 1,
        <<7, 1, 8, 1, 3, 9, 200000>>, TRUE>>, <<444932, <<4, 202, 230, 196, 74, 121, 87, 29>>,
        -2147483646, 11, 1, <<0, 1, 1, 1, 3, 9, 200000>>, TRUE>>, <<444941, <<243, 53, 73, 101,
        68, 177, 147, 148>>, 2147483646, 6, 2, <<2, 6, 2, 5, 3, 9, 200000>>, TRUE>>, <<445587,
        <<109, 51, 185, 215, 100, 208, 125, 220>>, 431, 16, 2, <<5, 3, 4, 3, 1, 9, 200000>>,
        TRUE>>, <<445849, <<103, 50, 169, 199, 63, 46, 36, 192>>, -2147483646, 8, 1, <<8, 0, 7,
        0, 1, 9, 200000>>, TRUE>>, <<445913, <<217, 205, 246, 24, 186, 87, 89, 103>>, -19983,
        15, 2, <<2, 3, 1, 3, 3, 9, 200000>>, TRUE>>, <<446095, <<143, 206, 118, 163, 220, 19,
        29, 126>>, -431, 1, 1, <<4, 0, 3, 0, 3, 9, 90000>>, TRUE>>, <<446630, <<90, 47, 217,
        167, 172, 241, 12, 201>>, -2147483646, 1, 1, <<1, 2, 1, 3, 3, 9, 200000>>, TRUE>>,
        <<447069, <<163, 45, 201, 214, 213, 192, 50, 149>>, -2147483646, 28, 1, <<1, 0, 2, 0, 1,
        9, 200000>>, TRUE>>, <<447343, <<145, 44, 217, 122, 56, 224, 62, 242>>, -2147483646, 1,
        1, <<4, 0, 3, 0, 1, 9, 90000>>, TRUE>>, <<447922, <<178, 213, 22, 255, 150, 164, 79,
        70>>, -431, 8, 1, <<0, 1, 1, 1, 1, 9, 200000>>, TRUE>>, <<449367, <<87, 219, 214, 121,
        93, 170, 13, 54>>, -2147483646, 1, 1, <<1, 5, 1, 4, 1, 9, 90000>>, TRUE>>, <<450252,
        <<52, 33, 137, 247, 45, 70, 132, 199>>, -431, 3, 1, <<2, 1, 2, 2, 1, 9, 200000>>,
        TRUE>>, <<450872, <<200, 30, 249, 143, 64, 14, 133, 141>>, -19983, 9, 2, <<1, 0, 2, 0,
        1, 9, 200000>>, TRUE>>, <<450905, <<167, 30, 201, 46, 68, 71, 198, 210>>, 19970, 3, 1,
        <<7, 3, 8, 3, 1, 9, 90000>>, TRUE>>, <<450950, <<122, 30, 89, 190, 122, 196, 145, 204>>,
        -431, 1, 1, <<5, 6, 6, 6, 1, 9, 26>>, TRUE>>, <<451878, <<218, 26, 153, 135, 145, 105,
        206, 173>>, 432, 5, 1, <<1, 1, 0, 1, 3, 9, 200000>>, TRUE>>, <<452451, <<99, 231, 214,
        57, 80, 164, 24, 34>>, 431, 22, 2, <<2, 3, 2, 4, 1, 9, 200000>>, TRUE>>, <<452601, <<7,
        24, 57, 76, 225, 186, 60, 147>>, -19975, 11, 2, <<4, 3, 3, 3, 3, 9, 200000>>, TRUE>>,
        <<453142, <<234, 21, 153, 158, 168, 220, 35, 166>>, 431, 5, 2, <<8, 2, 7, 2, 3, 9,
        200000>>, TRUE>>, <<454065, <<79, 18, 25, 153, 210, 161, 213, 165>>, -1, 1, 2, <<7, 1,
        7, 2, 3, 9, 15425>>, TRUE>>, <<455284, <<140, 13, 233, 28, 143, 91, 95, 151>>, -431, 5,
        1, <<6, 4, 7, 4, 1, 9, 200000>>, TRUE>>, <<455762, <<174, 11, 25, 175, 70, 118, 154,
        175>>, 432, 6, 1, <<2, 5, 2, 6, 3, 9, 200000>>, TRUE>>, <<456052, <<116, 245, 6, 15, 77,
        56, 156, 22>>, -2147483646, 13, 1, <<1, 1, 0, 1, 3, 9, 200000>>, TRUE>>, <<456152,
        <<216, 245, 166, 59, 184, 48, 10, 5>>, -432, 2, 2, <<1, 6, 1, 5, 1, 9, 31498>>, TRUE>>,
        <<457133, <<83, 6, 73, 53, 86, 121, 12, 239>>, -19987, 14, 2, <<0, 5, 0, 4, 3, 9,
        200000>>, TRUE>>, <<458325, <<85, 254, 230, 192, 14, 43, 243, 93>>, -431, 4, 1, <<7, 3,
        6, 3, 3, 9, 200000>>, TRUE>>, <<458808, <<56, 0, 7, 108, 164, 10, 187, 19>>,
        -2147483646, 17, 1, <<1, 2, 1, 3, 3, 9, 200000>>, TRUE>>, <<460412, <<132, 249, 232,
        123, 63, 90, 77, 184>>, 431, 17, 2, <<7, 2, 7, 3, 3, 9, 200000>>, TRUE>>, <<460535, <<9,
        249, 168, 2, 247, 212, 146, 192>>, 0, 1, 2, <<2, 1, 2, 2, 1, 9, 13491>>, TRUE>>,
        <<460560, <<16, 7, 39, 121, 124, 191, 56, 126>>, -431, 19, 1, <<2, 3, 2, 2, 1, 9,
        200000>>, TRUE>>, <<461258, <<202, 9, 39, 144, 28, 245, 75, 112>>, 0, 2, 2, <<4, 0, 3,
        0, 3, 9, 90000>>, TRUE>>, <<461362, <<50, 10, 71, 222, 64, 173, 127, 38>>, -19975, 7, 2,
        <<8, 0, 7, 0, 1, 9, 200000>>, TRUE>>, <<461396, <<172, 245, 120, 255, 74, 83, 154,
        134>>, 19968, 2, 1, <<6, 1, 7, 1, 3, 9, 6336>>, TRUE>>, <<461428, <<140, 245, 24, 1,
        197, 212, 2, 129>>, -19983, 16, 2, <<1, 3, 0, 3, 3, 9, 119739>>, TRUE>>, <<462098,
        <<238, 242, 184, 225, 228, 210, 253, 234>>, -431, 11, 1, <<6, 3, 5, 3, 1, 9, 200000>>,
        TRUE>>, <<462138, <<58, 13, 247, 204, 230, 43, 38, 66>>, 431, 17, 2, <<7, 1, 7, 2, 3, 9,
        200000>>, TRUE>>, <<462230, <<150, 13, 87, 248, 19, 35, 176, 81>>, -431, 2, 1, <<1, 6,
        1, 5, 1, 9, 200000>>, TRUE>>, <<462524, <<188, 14, 55, 135, 197, 129, 220, 74>>, -431,
        13, 1, <<1, 5, 1, 4, 1, 9, 200000>>, TRUE>>, <<463361, <<255, 237, 24, 92, 163, 64, 127,
        203>>, 431, 12, 2, <<6, 4, 6, 5, 1, 9, 200000>>, TRUE>>, <<463389, <<227, 237, 200, 169,
        161, 247, 188, 240>>, -478, 2, 2, <<5, 3, 4, 3, 3, 9, 90000>>, TRUE>>, <<464318, <<66,
        234, 152, 226, 128, 179, 199, 230>>, -431, 2, 1, <<7, 5, 7, 4, 1, 9, 200000>>, TRUE>>,
        <<464748, <<108, 23, 183, 178, 134, 50, 162, 9>>, -2147483646, 18, 1, <<1, 4, 1, 3, 3,
        9, 200000>>, TRUE>>, <<464980, <<172, 231, 200, 140, 13, 198, 10, 230>>, 432, 8, 1, <<0,
        0, 0, 1, 3, 9, 200000>>, TRUE>>, <<465417, <<247, 229, 8, 109, 187, 126, 13, 141>>, 432,
        13, 1, <<4, 6, 5, 6, 1, 9, 90000>>, TRUE>>, <<466286, <<110, 29, 39, 187, 157, 215, 223,
        10>>, 431, 3, 2, <<8, 5, 8, 4, 3, 9, 200000>>, TRUE>>, <<466470, <<38, 30, 23, 128, 34,
        48, 211, 1>>, 431, 9, 2, <<6, 3, 7, 3, 3, 9, 200000>>, TRUE>>, <<466496, <<64, 30, 167,
        98, 165, 95, 149, 82>>, -2147483646, 3, 1, <<0, 4, 0, 5, 3, 9, 12>>, TRUE>>, <<466860,
        <<84, 224, 104, 78, 124, 233, 51, 251>>, -431, 25, 0, <<1, 5, 2, 5, 1, 9, 200000>>,
        TRUE>>, <<467317, <<139, 222, 104, 84, 47, 158, 81, 246>>, -2147483646, 2, 1, <<1, 3, 1,
        2, 1, 9, 90000>>, TRUE>>, <<467457, <<255, 221, 40, 52, 195, 230, 51, 188>>,
        -2147483646, 22, 1, <<0, 2, 0, 1, 1, 9, 200000>>, TRUE>>, <<467502, <<46, 34, 215, 4,
        113, 13, 163, 34>>, -431, 15, 1, <<2, 5, 1, 5, 1, 9, 200000>>, TRUE>>, <<468757, <<235,
        216, 104, 127, 161, 178, 223, 163>>, 0, 2, 1, <<6, 5, 6, 4, 3, 9, 90000>>, TRUE>>,
        <<469060, <<68, 40, 183, 81, 91, 10, 73, 111>>, -2147483646, 1, 1, <<1, 5, 1, 4, 3, 9,
        28814>>, TRUE>>, <<469065, <<73, 40, 23, 101, 38, 49, 181, 102>>, 431, 2, 2, <<0, 4, 1,
        4, 1, 9, 200000>>, TRUE>>, <<469403, <<155, 41, 119, 126, 189, 51, 206, 34>>, 431, 2, 2,
        <<8, 5, 7, 5, 1, 9, 200000>>, TRUE>>, <<469992, <<232, 43, 103, 137, 140, 188, 10, 84>>,
        -431, 2, 1, <<7, 5, 7, 4, 1, 9, 200000>>, TRUE>>, <<471321, <<25, 49, 71, 172, 157, 205,
        77, 119>>, -19983, 12, 2, <<1, 1, 0, 1, 3, 9, 200000>>, TRUE>>, <<473320, <<232, 56,
        151, 42, 143, 8, 77, 38>>, 0, 1, 2, <<8, 1, 8, 2, 3, 9, 226>>, TRUE>>, <<475040, <<160,
        63, 151, 111, 54, 15, 228, 33>>, -431, 3, 1, <<4, 3, 3, 3, 1, 9, 200000>>, TRUE>>,
        <<475621, <<229, 65, 247, 237, 107, 97, 102, 69>>, -431, 2, 1, <<3, 6, 2, 6, 3, 9,
        492>>, TRUE>>, <<475890, <<14, 189, 216, 56, 33, 138, 200, 251>>, -19987, 19, 2, <<0, 4,
        0, 3, 3, 9, 200000>>, TRUE>>, <<476126, <<34, 188, 248, 57, 243, 201, 131, 194>>,
        -2147483646, 1, 1, <<1, 2, 1, 3, 3, 9, 200000>>, TRUE>>, <<476637, <<35, 186, 40, 237,
        148, 46, 64, 250>>, -431, 2, 1, <<8, 4, 8, 5, 3, 9, 200000>>, TRUE>>, <<478414, <<50,
        179, 24, 17, 101, 139, 91, 165>>, -2147483646, 3, 1, <<3, 3, 2, 3, 3, 9, 200000>>,
        TRUE>>, <<478679, <<215, 77, 231, 170, 177, 34, 248, 1>>, 19984, 3, 2, <<0, 0, 0, 1, 3,
        9, 200000>>, TRUE>>, <<478959, <<17, 177, 200, 228, 194, 209, 197, 218>>, 19970, 7, 1,
        <<7, 5, 7, 4, 1, 9, 200000>>, TRUE>>, <<479037, <<61, 79, 7, 87, 57, 78, 75, 69>>, 432,
        1, 1, <<1, 6, 1, 5, 1, 9, 90000>>, TRUE>>, <<479101, <<131, 176, 88, 41, 109, 247, 137,
        158>>, 0, 11, 1, <<8, 2, 8, 1, 3, 9, 200000>>, TRUE>>, <<479121, <<145, 79, 167, 99,
        204, 70, 221, 86>>, 19984, 18, 2, <<2, 1, 1, 1, 3, 9, 200000>>, TRUE>>, <<479125, <<149,
        79, 23, 188, 113, 249, 198, 32>>, -19987, 17, 2, <<2, 2, 1, 2, 3, 9, 200000>>, TRUE>>,
        <<479404, <<84, 175, 56, 174, 118, 84, 119, 178>>, -2147483646, 9, 1, <<1, 3, 2, 3, 3,
        9, 200000>>, TRUE>>, <<480600, <<88, 85, 71, 247, 198, 46, 102, 48>>, 432, 6, 1, <<1, 0,
        1, 1, 3, 9, 200000>>, TRUE>>, <<480970, <<54, 169, 200, 72, 145, 203, 228, 182>>, -431,
        3, 1, <<3, 3, 2, 3, 1, 9, 200000>>, TRUE>>, <<482720, <<96, 162, 152, 11, 60, 245, 247,
        194>>, -431, 6, 1, <<2, 6, 3, 6, 1, 9, 200000>>, TRUE>>, <<483265, <<63, 160, 56, 235,
        16, 23, 143, 237>>, -431, 10, 1, <<2, 1, 1, 1, 3, 9, 200000>>, TRUE>>, <<483336, <<8,
        96, 247, 19, 151, 100, 202, 90>>, -19971, 3, 2, <<1, 3, 0, 3, 3, 9, 90000>>, TRUE>>,
        <<484212, <<140, 156, 248, 5, 38, 189, 200, 135>>, 431, 7, 2, <<4, 0, 5, 0, 3, 9, 56>>,
        TRUE>>, <<484624, <<240, 154, 200, 52, 66, 46, 121, 180>>, -19991, 27, 2, <<1, 0, 0, 0,
        1, 9, 200000>>, TRUE>>, <<485168, <<208, 152, 136, 109, 41, 107, 51, 166>>, -431, 3, 1,
        <<2, 1, 2, 2, 1, 9, 200000>>, TRUE>>, <<485328, <<48, 152, 40, 69, 44, 56, 83, 167>>,
        -2147483646, 19, 1, <<0, 4, 0, 5, 3, 9, 200000>>, TRUE>>, <<486479, <<79, 108, 119, 151,
        205, 156, 17, 55>>, 431, 7, 2, <<1, 6, 1, 5, 1, 9, 200000>>, TRUE>>, <<487603, <<179,
        112, 183, 245, 50, 243, 64, 66>>, -431, 2, 1, <<8, 6, 8, 5, 3, 9, 200000>>, TRUE>>,
        <<488688, <<240, 116, 71, 114, 147, 122, 163, 17>>, -431, 3, 1, <<5, 6, 4, 6, 1, 9,
        90000>>, TRUE>>, <<489320, <<104, 119, 55, 15, 38, 253, 206, 100>>, -2147483646, 14, 1,
        <<2, 2, 2, 3, 3, 9, 200000>>, TRUE>>, <<490675, <<77, 131, 72, 43, 228, 197, 213, 159>>,
        -431, 1, 1, <<3, 0, 2, 0, 3, 9, 756>>, TRUE>>, <<490763, <<11, 125, 199, 192, 28, 98,
        31, 53>>, -2147483646, 1, 1, <<4, 3, 3, 3, 1, 9, 90000>>, TRUE>>, <<491168, <<96, 129,
        168, 94, 245, 216, 254, 139>>, -431, 23, 1, <<0, 1, 0, 0, 1, 9, 200000>>, TRUE>>,
        <<492030, <<254, 129, 71, 157, 19, 134, 228, 107>>, 432, 10, 1, <<3, 0, 2, 0, 3, 9,
        200000>>, TRUE>>, <<493342, <<226, 120, 72, 90, 164, 230, 217, 148>>, -19979, 10, 2,
        <<5, 6, 6, 6, 1, 9, 200000>>, TRUE>>, <<494536, <<56, 116, 184, 246, 225, 227, 57,
        210>>, 431, 5, 2, <<8, 4, 8, 5, 3, 9, 200000>>, TRUE>>, <<495299, <<61, 113, 200, 15,
        248, 167, 61, 219>>, 19968, 9, 1, <<6, 6, 7, 6, 1, 9, 465>>, TRUE>>, <<496413, <<29,
        147, 151, 151, 65, 52, 8, 44>>, -2147483646, 18, 1, <<1, 1, 0, 1, 1, 9, 200000>>,
        TRUE>>, <<496614, <<26, 108, 248, 59, 160, 248, 176, 223>>, 431, 1, 2, <<6, 2, 6, 3, 3,
        9, 87548>>, TRUE>>, <<496763, <<123, 148, 151, 149, 134, 152, 98, 118>>, -2147483646, 2,
        1, <<0, 1, 0, 2, 1, 9, 200000>>, TRUE>>, <<496958, <<194, 106, 152, 215, 108, 244, 209,
        243>>, -431, 6, 1, <<3, 6, 4, 6, 1, 9, 200000>>, TRUE>>, <<497066, <<86, 106, 136, 178,
        99, 129, 120, 180>>, -19977, 9, 2, <<7, 2, 8, 2, 3, 1, 200000>>, TRUE>>, <<497174,
        <<234, 105, 56, 210, 35, 203, 44, 191>>, 0, 1, 1, <<5, 0, 4, 0, 1, 9, 15082>>, TRUE>>,
        <<497378, <<226, 150, 199, 28, 117, 178, 3, 49>>, 0, 8, 1, <<1, 0, 0, 0, 1, 9, 200000>>,
        TRUE>>, <<497487, <<79, 151, 183, 241, 132, 7, 158, 18>>, -2147483646, 12, 1, <<2, 4, 1,
        4, 1, 9, 200000>>, TRUE>>, <<497828, <<92, 103, 216, 175, 157, 217, 242, 143>>, 19984,
        7, 2, <<0, 1, 0, 2, 1, 9, 200000>>, TRUE>>, <<497967, <<209, 102, 248, 31, 198, 98, 165,
        170>>, 431, 20, 2, <<2, 1, 2, 0, 1, 9, 200000>>, TRUE>>, <<498923, <<235, 156, 119, 160,
        131, 248, 106, 80>>, -19983, 19, 2, <<0, 4, 0, 3, 3, 9, 200000>>, TRUE>>, <<499846,
        <<134, 160, 167, 209, 187, 128, 57, 79>>, -431, 3, 1, <<2, 3, 2, 2, 1, 9, 200000>>,
        TRUE>>, <<500364, <<140, 162, 55, 93, 231, 84, 190, 25>>, 432, 10, 1, <<2, 1, 2, 0, 3,
        9, 200000>>, TRUE>>, <<500550, <<70, 163, 55, 134, 65, 200, 13, 55>>, 0, 9, 2, <<6, 2,
        6, 3, 3, 9, 200000>>, TRUE>>, <<500658, <<78, 92, 200, 72, 23, 177, 34, 185>>, 431, 5,
        2, <<6, 6, 5, 6, 3, 9, 200000>>, TRUE>>, <<500727, <<247, 163, 119, 131, 141, 169, 198,
        101>>, 2147483646, 4, 2, <<3, 6, 2, 6, 3, 9, 200000>>, TRUE>>, <<501115, <<133, 90, 200,
        170, 81, 146, 56, 207>>, -1, 1, 2, <<8, 0, 8, 1, 3, 9, 90000>>, TRUE>>, <<501472, <<32,
        89, 72, 255, 27, 240, 122, 230>>, 431, 25, 2, <<7, 2, 7, 3, 3, 9, 200000>>, TRUE>>,
        <<501812, <<52, 168, 87, 215, 154, 20, 115, 100>>, -2147483646, 24, 1, <<2, 4, 2, 3, 3,
        9, 200000>>, TRUE>>, <<503105, <<191, 82, 152, 191, 45, 239, 103, 168>>, 431, 2, 2, <<5,
        3, 4, 3, 1, 9, 200000>>, TRUE>>, <<504408, <<88, 178, 23, 179, 16, 234, 151, 49>>,
        -2147483646, 3, 1, <<2, 2, 2, 3, 3, 9, 200000>>, TRUE>>, <<504584, <<248, 76, 72, 202,
        186, 63, 56, 140>>, 432, 6, 1, <<2, 2, 2, 3, 3, 9, 97680>>, TRUE>>, <<504609, <<33, 179,
        167, 52, 48, 146, 210, 29>>, -431, 1, 1, <<7, 4, 7, 3, 3, 9, 120128>>, TRUE>>, <<505717,
        <<117, 183, 183, 50, 74, 135, 15, 98>>, 0, 11, 1, <<6, 0, 5, 0, 3, 9, 200000>>, TRUE>>,
        <<505800, <<200, 183, 23, 54, 162, 152, 149, 87>>, -2147483646, 15, 1, <<1, 4, 1, 3, 3,
        9, 200000>>, TRUE>>, <<505851, <<5, 72, 56, 97, 165, 75, 42, 170>>, -2147483646, 8, 1,
        <<0, 0, 0, 1, 1, 9, 200000>>, TRUE>>, <<505958, <<154, 71, 200, 95, 70, 69, 33, 223>>,
        432, 8, 1, <<2, 4, 2, 5, 3, 9, 200000>>, TRUE>>, <<506058, <<54, 71, 104, 107, 179, 77,
        183, 204>>, -431, 14, 2, <<1, 6, 2, 6, 1, 9, 200000>>, TRUE>>, <<506616, <<8, 69, 24,
        18, 116, 55, 142, 140>>, -431, 7, 1, <<8, 1, 7, 1, 1, 9, 200000>>, TRUE>>, <<507417,
        <<231, 65, 88, 108, 42, 159, 211, 248>>, -2147483646, 1, 1, <<0, 6, 1, 6, 1, 9,
        200000>>, TRUE>>, <<508321, <<161, 193, 231, 29, 217, 6, 114, 45>>, 431, 5, 2, <<4, 3,
        3, 3, 1, 9, 200000>>, TRUE>>, <<508946, <<18, 196, 167, 245, 25, 12, 175, 38>>, -431,
        11, 1, <<2, 5, 1, 5, 1, 9, 200000>>, TRUE>>, <<509454, <<242, 57, 216, 124, 144, 116,
        115, 205>>, -431, 1, 1, <<3, 3, 2, 3, 1, 9, 90000>>, TRUE>>, <<510621, <<99, 53, 152,
        102, 122, 39, 20, 238>>, 2147483646, 2, 2, <<2, 2, 2, 3, 3, 9, 200000>>, TRUE>>,
        <<511464, <<232, 205, 215, 194, 236, 59, 73, 120>>, 0, 3, 1, <<4, 0, 3, 0, 1, 9,
        200000>>, TRUE>>, <<512878, <<110, 211, 23, 7, 6, 186, 211, 91>>, -431, 2, 1, <<1, 5, 1,
        4, 1, 9, 200000>>, TRUE>>, <<513105, <<81, 212, 199, 255, 217, 12, 96, 74>>, 0, 13, 1,
        <<6, 1, 7, 1, 3, 9, 200000>>, TRUE>>, <<513412, <<132, 213, 23, 106, 71, 34, 228, 119>>,
        0, 12, 1, <<3, 0, 2, 0, 1, 9, 200000>>, TRUE>>, <<513417, <<137, 213, 183, 94, 58, 25,
        24, 126>>, -19987, 16, 2, <<1, 5, 1, 4, 3, 9, 200000>>, TRUE>>, <<513829, <<37, 215, 55,
        93, 245, 204, 65, 115>>, -431, 24, 1, <<7, 3, 7, 2, 3, 9, 200000>>, TRUE>>, <<514314,
        <<246, 38, 40, 246, 50, 231, 255, 186>>, -431, 3, 1, <<0, 1, 0, 0, 1, 9, 200000>>,
        TRUE>>, <<515974, <<134, 223, 135, 214, 191, 126, 38, 78>>, 431, 15, 2, <<7, 3, 7, 2, 3,
        9, 200000>>, TRUE>>, <<516396, <<44, 225, 87, 136, 20, 190, 52, 122>>, 2147483646, 7, 2,
        <<2, 3, 3, 3, 1, 9, 200000>>, TRUE>>, <<516679, <<185, 29, 184, 61, 228, 20, 75, 243>>,
        -2147483646, 8, 1, <<6, 0, 5, 0, 1, 9, 200000>>, TRUE>>, <<516710, <<102, 226, 215, 144,
        160, 36, 142, 31>>, 2147483646, 7, 2, <<6, 2, 6, 3, 1, 9, 200000>>, TRUE>>, <<516971,
        <<149, 28, 24, 54, 213, 115, 226, 245>>, 2147483646, 5, 2, <<6, 3, 7, 3, 3, 9, 200000>>,
        TRUE>>, <<516986, <<134, 28, 88, 189, 215, 99, 180, 156>>, 432, 8, 1, <<1, 2, 1, 3, 3,
        9, 200000>>, TRUE>>, <<517434, <<58, 229, 183, 170, 76, 51, 66, 55>>, 431, 25, 2, <<7,
        2, 7, 3, 3, 9, 200000>>, TRUE>>, <<519102, <<190, 235, 135, 65, 45, 184, 37, 110>>,
        -19987, 16, 2, <<1, 5, 0, 5, 1, 9, 200000>>, TRUE>>, <<519669, <<11, 18, 24, 178, 15,
        255, 164, 131>>, -2147483646, 2, 1, <<2, 3, 2, 2, 1, 9, 200000>>, TRUE>>, <<520339,
        <<147, 240, 183, 40, 211, 207, 237, 84>>, -431, 2, 1, <<8, 4, 8, 5, 3, 9, 200000>>,
        TRUE>>, <<521019, <<59, 243, 135, 190, 9, 34, 176, 78>>, 2147483646, 1, 2, <<6, 3, 5, 3,
        3, 9, 200000>>, TRUE>>, <<521111, <<151, 243, 39, 138, 252, 42, 38, 93>>, -2147483646,
        1, 1, <<1, 6, 2, 6, 1, 9, 200000>>, TRUE>>, <<521155, <<61, 12, 152, 171, 17, 179, 99,
        245>>, -431, 24, 1, <<7, 3, 6, 3, 3, 9, 200000>>, TRUE>>, <<521277, <<195, 11, 104, 173,
        203, 65, 115, 207>>, 431, 4, 2, <<6, 4, 6, 3, 1, 9, 90000>>, TRUE>>, <<521530, <<58,
        245, 183, 245, 125, 94, 46, 51>>, 431, 3, 2, <<8, 5, 8, 4, 3, 9, 200000>>, TRUE>>,
        <<522228, <<244, 247, 167, 213, 0, 174, 138, 91>>, -431, 6, 1, <<7, 6, 7, 5, 1, 9,
        200000>>, TRUE>>, <<522654, <<158, 249, 23, 41, 242, 72, 120, 4>>, 0, 5, 2, <<6, 2, 6,
        3, 3, 9, 200000>>, TRUE>>, <<523317, <<203, 3, 120, 156, 211, 127, 1, 137>>, 431, 12, 2,
        <<4, 6, 3, 6, 1, 9, 200000>>, TRUE>>, <<523690, <<86, 2, 248, 37, 254, 47, 32, 250>>,
        -431, 6, 1, <<7, 6, 7, 5, 1, 9, 200000>>, TRUE>>, <<524102, <<70, 255, 119, 197, 62, 68,
        25, 40>>, -431, 1, 1, <<6, 5, 7, 5, 1, 9, 90000>>, TRUE>>, <<524962, <<94, 253, 71, 110,
        80, 87, 68, 150>>, 0, 4, 1, <<0, 0, 1, 0, 1, 9, 200000>>, TRUE>>, <<525300, <<244, 3,
        40, 50, 126, 211, 97, 61>>, 0, 4, 1, <<5, 0, 4, 0, 1, 9, 200000>>, TRUE>>, <<525341,
        <<29, 4, 72, 236, 55, 6, 15, 58>>, -431, 6, 1, <<2, 5, 2, 4, 3, 9, 17266>>, TRUE>>,
        <<525748, <<180, 5, 104, 197, 237, 244, 186, 73>>, -431, 15, 2, <<2, 4, 1, 4, 1, 9,
        200000>>, TRUE>>, <<525869, <<211, 249, 167, 163, 170, 76, 243, 204>>, 1, 9, 1, <<0, 0,
        1, 0, 1, 9, 200000>>, TRUE>>, <<526835, <<243, 9, 24, 130, 186, 115, 194, 58>>, 19970,
        7, 1, <<7, 5, 7, 4, 1, 9, 200000>>, TRUE>>, <<527770, <<102, 242, 7, 144, 119, 96, 12,
        220>>, 0, 10, 1, <<2, 0, 3, 0, 1, 9, 200000>>, TRUE>>, <<527897, <<25, 14, 136, 224, 55,
        181, 126, 8>>, -2147483646, 3, 1, <<7, 0, 6, 0, 1, 9, 200000>>, TRUE>>, <<527943, <<71,
        14, 24, 215, 168, 122, 216, 8>>, -431, 2, 1, <<7, 1, 7, 2, 3, 9, 131>>, TRUE>>,
        <<528997, <<101, 18, 248, 197, 89, 218, 158, 89>>, 0, 1, 2, <<2, 1, 2, 2, 1, 9, 13491>>,
        TRUE>>, <<529128, <<232, 18, 8, 160, 48, 142, 26, 101>>, 431, 7, 2, <<8, 5, 8, 4, 3, 9,
        200000>>, TRUE>>, <<529244, <<164, 236, 71, 170, 125, 28, 93, 153>>, -431, 10, 1, <<6,
        6, 5, 6, 1, 9, 200000>>, TRUE>>, <<529275, <<123, 19, 88, 60, 214, 101, 121, 57>>,
        -2147483646, 23, 1, <<1, 5, 1, 4, 1, 9, 200000>>, TRUE>>, <<530068, <<148, 22, 216, 232,
        0, 49, 93, 63>>, -431, 1, 1, <<6, 2, 6, 3, 1, 9, 10>>, TRUE>>, <<531389, <<67, 228, 135,
        192, 44, 190, 232, 203>>, -19983, 13, 2, <<2, 4, 2, 3, 3, 9, 97503>>, TRUE>>, <<531491,
        <<35, 28, 72, 181, 101, 112, 159, 17>>, -2147483646, 22, 1, <<4, 0, 3, 0, 1, 9,
        200000>>, TRUE>>, <<531870, <<158, 29, 152, 186, 29, 107, 59, 73>>, -431, 3, 1, <<0, 1,
        0, 0, 1, 9, 200000>>, TRUE>>, <<532643, <<163, 32, 200, 135, 121, 25, 179, 106>>,
        -19991, 28, 2, <<2, 3, 1, 3, 3, 9, 200000>>, TRUE>>, <<532895, <<97, 222, 183, 135, 201,
        118, 170, 167>>, 19970, 3, 1, <<7, 3, 8, 3, 1, 9, 90000>>, TRUE>>, <<532988, <<4, 222,
        55, 48, 31, 17, 121, 142>>, -352, 2, 0, <<8, 1, 8, 2, 1, 9, 0>>, TRUE>>, <<532989, <<3,
        222, 151, 254, 211, 204, 28, 215>>, -19971, 3, 2, <<2, 3, 1, 3, 3, 9, 90000>>, TRUE>>,
        <<533319, <<71, 35, 72, 127, 202, 39, 152, 15>>, 0, 3, 2, <<2, 0, 1, 0, 1, 9, 1345>>,
        TRUE>>, <<533781, <<235, 218, 119, 78, 65, 185, 36, 250>>, -2147483646, 3, 1, <<0, 6, 1,
        6, 1, 9, 200000>>, TRUE>>, <<534086, <<70, 38, 232, 152, 180, 40, 102, 16>>, 0, 3, 1,
        <<1, 1, 1, 0, 1, 9, 200000>>, TRUE>>, <<534686, <<158, 40, 168, 169, 251, 185, 32,
        114>>, -2147483646, 2, 1, <<4, 3, 3, 3, 3, 9, 200000>>, TRUE>>, <<534912, <<128, 41,
        200, 162, 151, 229, 200, 56>>, -431, 1, 1, <<8, 6, 7, 6, 1, 9, 200000>>, TRUE>>,
        <<534960, <<176, 41, 8, 175, 118, 228, 4, 108>>, 0, 3, 2, <<7, 4, 7, 3, 3, 9, 200000>>,
        TRUE>>, <<535221, <<181, 42, 104, 131, 114, 216, 104, 108>>, -2147483646, 20, 1, <<2, 1,
        2, 2, 1, 9, 200000>>, TRUE>>, <<535869, <<61, 45, 232, 98, 140, 255, 179, 54>>, -431, 2,
        1, <<6, 4, 6, 3, 3, 9, 59467>>, TRUE>>, <<536393, <<73, 47, 40, 190, 191, 56, 142, 91>>,
        -2147483646, 3, 1, <<0, 6, 1, 6, 1, 9, 200000>>, TRUE>>, <<538192, <<80, 54, 216, 168,
        74, 169, 111, 59>>, 431, 17, 2, <<8, 2, 7, 2, 3, 9, 200000>>, TRUE>>, <<538623, <<255,
        55, 168, 226, 164, 99, 19, 70>>, 431, 12, 2, <<3, 0, 4, 0, 1, 9, 200000>>, TRUE>>,
        <<539209, <<183, 197, 183, 135, 59, 9, 194, 136>>, -431, 13, 1, <<0, 1, 0, 2, 3, 9,
        200000>>, TRUE>>, <<540685, <<243, 191, 183, 22, 72, 144, 235, 155>>, -2147483646, 11,
        1, <<1, 6, 1, 5, 1, 9, 200000>>, TRUE>>, <<541007, <<177, 190, 87, 155, 228, 92, 139,
        174>>, -19983, 12, 2, <<1, 3, 0, 3, 3, 9, 200000>>, TRUE>>, <<541834, <<138, 68, 168,
        244, 212, 88, 209, 76>>, -2147483646, 3, 1, <<3, 3, 2, 3, 3, 9, 200000>>, TRUE>>,
        <<542247, <<217, 185, 183, 103, 144, 87, 29, 150>>, -2147483646, 18, 1, <<2, 4, 2, 3, 1,
        9, 200000>>, TRUE>>, <<542325, <<139, 185, 71, 143, 96, 107, 28, 208>>, -431, 34, 1,
        <<5, 3, 4, 3, 3, 9, 200000>>, TRUE>>, <<543785, <<41, 76, 24, 127, 158, 234, 182, 113>>,
        -19991, 30, 2, <<3, 3, 2, 3, 3, 9, 200000>>, TRUE>>, <<543980, <<236, 76, 72, 120, 130,
        23, 35, 28>>, -2147483646, 2, 1, <<2, 1, 1, 1, 3, 9, 200000>>, TRUE>>, <<544163, <<93,
        178, 231, 130, 255, 185, 224, 217>>, 0, 5, 1, <<7, 1, 7, 2, 3, 9, 200000>>, TRUE>>,
        <<544380, <<124, 78, 248, 197, 32, 163, 52, 13>>, 0, 3, 1, <<2, 2, 2, 1, 1, 9, 90000>>,
        TRUE>>, <<544838, <<186, 175, 39, 227, 220, 212, 174, 153>>, -431, 1, 1, <<7, 5, 7, 4,
        1, 9, 90000>>, TRUE>>, <<544859, <<165, 175, 39, 124, 145, 116, 163, 173>>, -19975, 22,
        2, <<4, 3, 3, 3, 3, 9, 200000>>, TRUE>>, <<544994, <<226, 80, 200, 33, 99, 217, 121,
        90>>, 431, 17, 2, <<6, 3, 7, 3, 3, 9, 200000>>, TRUE>>, <<545009, <<241, 80, 136, 170,
        97, 201, 47, 51>>, -19987, 24, 2, <<1, 2, 0, 2, 3, 9, 200000>>, TRUE>>, <<545029, <<5,
        81, 120, 5, 59, 161, 12, 16>>, -431, 3, 1, <<4, 3, 3, 3, 3, 9, 200000>>, TRUE>>,
        <<545114, <<166, 174, 167, 122, 237, 241, 128, 137>>, 431, 1, 2, <<2, 3, 3, 3, 3, 9,
        98384>>, TRUE>>, <<545178, <<102, 174, 103, 202, 139, 226, 253, 221>>, -2147483646, 3,
        1, <<2, 5, 1, 5, 3, 9, 200000>>, TRUE>>, <<546854, <<218, 167, 23, 221, 153, 2, 232,
        168>>, 2147483646, 6, 2, <<1, 5, 1, 4, 1, 9, 200000>>, TRUE>>, <<546920, <<152, 167, 71,
        82, 19, 212, 48, 181>>, -2147483646, 7, 1, <<2, 3, 3, 3, 3, 9, 200000>>, TRUE>>,
        <<547615, <<31, 91, 56, 34, 208, 246, 236, 45>>, -1, 1, 2, <<8, 0, 8, 1, 3, 9, 109>>,
        TRUE>>, <<548430, <<78, 94, 168, 125, 236, 85, 235, 101>>, -2147483646, 1, 1, <<1, 3, 2,
        3, 3, 9, 200000>>, TRUE>>, <<548686, <<78, 95, 24, 234, 117, 100, 13, 6>>, 432, 12, 1,
        <<2, 0, 1, 0, 3, 9, 200000>>, TRUE>>, <<549523, <<147, 98, 232, 121, 132, 20, 62, 86>>,
        -431, 34, 1, <<5, 3, 4, 3, 3, 9, 200000>>, TRUE>>, <<549682, <<206, 156, 23, 37, 4, 186,
        20, 181>>, -2147483646, 3, 1, <<0, 2, 1, 2, 3, 9, 200000>>, TRUE>>, <<549906, <<238,
        155, 23, 157, 148, 12, 253, 188>>, -431, 3, 1, <<2, 3, 2, 2, 1, 9, 200000>>, TRUE>>,
        <<550225, <<175, 154, 151, 124, 36, 207, 107, 205>>, -431, 2, 1, <<6, 2, 6, 3, 3, 9,
        200000>>, TRUE>>, <<550257, <<113, 101, 200, 138, 92, 81, 237, 87>>, 2147483646, 6, 2,
        <<1, 1, 1, 2, 3, 9, 200000>>, TRUE>>, <<550566, <<90, 153, 215, 7, 149, 9, 215, 248>>,
        -431, 3, 1, <<7, 6, 7, 5, 1, 9, 200000>>, TRUE>>, <<550713, <<199, 152, 87, 190, 184,
        89, 246, 139>>, 431, 15, 2, <<4, 6, 3, 6, 1, 9, 200000>>, TRUE>>, <<550945, <<33, 104,
        24, 236, 74, 203, 217, 6>>, -431, 2, 1, <<8, 1, 7, 1, 3, 9, 200000>>, TRUE>>, <<551119,
        <<49, 151, 183, 137, 122, 149, 148, 247>>, -431, 30, 2, <<3, 3, 2, 3, 3, 9, 200000>>,
        TRUE>>, <<552293, <<101, 109, 8, 78, 70, 216, 92, 42>>, 431, 13, 2, <<4, 6, 5, 6, 1, 9,
        200000>>, TRUE>>, <<552721, <<17, 111, 200, 146, 117, 31, 97, 71>>, 2147483646, 1, 2,
        <<6, 4, 6, 3, 3, 9, 68639>>, TRUE>>, <<552862, <<158, 111, 56, 184, 118, 197, 121,
        110>>, 431, 2, 2, <<3, 0, 2, 0, 3, 9, 200000>>, TRUE>>, <<552901, <<59, 144, 55, 0, 137,
        37, 244, 230>>, 2147483646, 6, 2, <<2, 6, 2, 5, 3, 9, 200000>>, TRUE>>, <<552908, <<204,
        111, 152, 161, 135, 237, 48, 111>>, 431, 3, 2, <<0, 1, 0, 2, 3, 9, 200000>>, TRUE>>,
        <<553117, <<157, 112, 8, 164, 201, 215, 170, 68>>, -2147483646, 2, 1, <<6, 2, 6, 1, 1,
        9, 200000>>, TRUE>>, <<553531, <<197, 141, 119, 129, 109, 188, 191, 235>>, -2147483646,
        1, 1, <<4, 3, 3, 3, 1, 9, 817>>, TRUE>>, <<554318, <<178, 138, 135, 62, 5, 153, 170,
        142>>, 0, 20, 2, <<2, 4, 2, 5, 1, 9, 200000>>, TRUE>>, <<556769, <<31, 129, 103, 27,
        223, 216, 110, 207>>, -2147483646, 6, 1, <<7, 0, 6, 0, 1, 9, 200000>>, TRUE>>, <<557210,
        <<102, 127, 167, 246, 253, 8, 219, 252>>, -431, 8, 1, <<7, 6, 7, 5, 1, 9, 200000>>,
        TRUE>>, <<557350, <<218, 126, 7, 151, 221, 21, 234, 173>>, 431, 2, 2, <<5, 0, 4, 0, 3,
        9, 290>>, TRUE>>, <<557458, <<110, 126, 55, 122, 216, 184, 160, 212>>, 0, 4, 2, <<4, 6,
        3, 6, 3, 9, 200000>>, TRUE>>, <<557901, <<77, 131, 184, 123, 52, 80, 225, 83>>, -431,
        16, 1, <<7, 3, 6, 3, 3, 9, 200000>>, TRUE>>, <<558639, <<47, 134, 152, 142, 60, 237,
        169, 126>>, -2147483646, 1, 1, <<4, 3, 3, 3, 1, 9, 188>>, TRUE>>, <<559111, <<249, 119,
        7, 178, 51, 233, 145, 255>>, 1, 7, 1, <<3, 0, 2, 0, 1, 9, 200000>>, TRUE>>, <<559373,
        <<243, 118, 55, 126, 200, 102, 136, 201>>, -2147483646, 4, 1, <<6, 4, 6, 3, 1, 9,
        200000>>, TRUE>>, <<559449, <<89, 137, 88, 203, 153, 60, 62, 66>>, 19968, 3, 1, <<7, 4,
        7, 3, 1, 9, 90000>>, TRUE>>, <<559475, <<115, 137, 24, 183, 86, 52, 212, 47>>, 431, 14,
        2, <<3, 6, 4, 6, 1, 9, 200000>>, TRUE>>, <<560728, <<88, 142, 152, 124, 2, 43, 89, 97>>,
        19970, 4, 1, <<4, 3, 3, 3, 3, 9, 90000>>, TRUE>>, <<561347, <<195, 144, 168, 79, 249, 0,
        166, 55>>, -1, 1, 2, <<7, 5, 8, 5, 3, 9, 452>>, TRUE>>, <<561766, <<154, 109, 87, 90,
        81, 232, 211, 237>>, -431, 1, 1, <<0, 0, 1, 0, 1, 9, 90000>>, TRUE>>, <<562379, <<203,
        148, 136, 106, 245, 126, 183, 69>>, 431, 4, 2, <<3, 0, 4, 0, 1, 9, 200000>>, TRUE>>,
        <<562539, <<149, 106, 7, 192, 167, 99, 250, 248>>, 2147483646, 9, 2, <<4, 3, 5, 3, 3, 9,
        200000>>, TRUE>>, <<562754, <<190, 105, 87, 171, 233, 24, 101, 221>>, -431, 19, 1, <<2,
        3, 2, 2, 1, 9, 200000>>, TRUE>>, <<562877, <<189, 150, 152, 84, 19, 83, 17, 72>>,
        -19973, 3, 2, <<1, 3, 0, 3, 3, 9, 200000>>, TRUE>>, <<563001, <<199, 104, 199, 71, 133,
        133, 70, 207>>, 431, 18, 2, <<4, 3, 3, 3, 1, 9, 200000>>, TRUE>>, <<563401, <<201, 152,
        152, 234, 41, 94, 91, 125>>, -2147483646, 2, 1, <<8, 0, 7, 0, 1, 9, 200000>>, TRUE>>,
        <<564252, <<28, 156, 8, 91, 23, 153, 207, 124>>, 0, 22, 2, <<2, 3, 2, 4, 1, 9, 200000>>,
        TRUE>>, <<564989, <<3, 97, 23, 42, 101, 169, 69, 164>>, -19987, 22, 2, <<0, 2, 0, 3, 3,
        9, 200000>>, TRUE>>, <<566543, <<241, 90, 7, 208, 160, 169, 18, 191>>, 431, 8, 2, <<1,
        6, 1, 5, 1, 9, 200000>>, TRUE>>, <<566691, <<93, 90, 167, 228, 85, 161, 132, 172>>,
        -431, 22, 1, <<7, 2, 7, 3, 3, 9, 200000>>, TRUE>>, <<566786, <<254, 89, 55, 153, 50,
        173, 77, 224>>, 431, 1, 2, <<0, 2, 0, 1, 3, 9, 90000>>, TRUE>>, <<566821, <<219, 89,
        103, 175, 118, 11, 126, 164>>, -2147483646, 1, 1, <<1, 5, 1, 4, 1, 9, 23766>>, TRUE>>,
        <<567208, <<88, 88, 151, 101, 119, 111, 183, 203>>, 431, 7, 2, <<8, 5, 8, 4, 3, 9,
        200000>>, TRUE>>, <<568091, <<27, 171, 216, 109, 80, 67, 251, 110>>, -1, 3, 2, <<7, 4,
        8, 4, 3, 9, 436>>, TRUE>>, <<568594, <<238, 82, 167, 240, 167, 4, 152, 220>>, 431, 5, 2,
        <<5, 0, 4, 0, 3, 9, 90000>>, TRUE>>, <<568728, <<104, 82, 39, 115, 240, 103, 242, 188>>,
        -2147483646, 2, 1, <<4, 3, 5, 3, 3, 9, 200000>>, TRUE>>, <<568740, <<92, 82, 167, 85,
        219, 201, 145, 224>>, -19979, 5, 2, <<6, 2, 6, 3, 3, 1, 200000>>, TRUE>>, <<568766,
        <<66, 82, 135, 28, 150, 138, 30, 199>>, 432, 10, 1, <<1, 2, 2, 2, 3, 9, 200000>>,
        TRUE>>, <<569238, <<150, 175, 56, 160, 170, 88, 76, 52>>, 431, 11, 2, <<6, 4, 6, 3, 3,
        9, 200000>>, TRUE>>, <<569596, <<4, 79, 247, 0, 170, 21, 23, 231>>, -431, 29, 2, <<0, 2,
        1, 2, 1, 9, 200000>>, TRUE>>, <<569625, <<25, 177, 168, 161, 236, 147, 93, 124>>, -431,
        2, 1, <<8, 2, 8, 1, 3, 9, 200000>>, TRUE>>, <<570240, <<128, 76, 167, 214, 228, 170,
        254, 129>>, 2147483646, 4, 2, <<2, 5, 1, 5, 1, 9, 200000>>, TRUE>>, <<570276, <<92, 76,
        151, 240, 16, 176, 118, 213>>, 431, 25, 2, <<6, 3, 7, 3, 3, 9, 200000>>, TRUE>>,
        <<570393, <<25, 180, 88, 25, 25, 193, 253, 14>>, -2147483646, 20, 1, <<1, 6, 1, 5, 1, 9,
        200000>>, TRUE>>, <<570405, <<219, 75, 7, 185, 29, 127, 132, 177>>, -431, 2, 1, <<7, 5,
        8, 5, 3, 9, 200000>>, TRUE>>, <<570549, <<181, 180, 248, 45, 236, 201, 107, 29>>,
        -19987, 24, 2, <<1, 4, 0, 4, 3, 9, 200000>>, TRUE>>, <<570565, <<59, 75, 87, 67, 203,
        101, 175, 221>>, 431, 2, 2, <<1, 0, 2, 0, 1, 9, 200000>>, TRUE>>, <<570867, <<243, 181,
        56, 108, 137, 240, 214, 23>>, -431, 3, 1, <<7, 2, 7, 3, 3, 9, 200000>>, TRUE>>,
        <<571175, <<217, 72, 231, 220, 90, 59, 25, 157>>, 432, 11, 1, <<3, 6, 4, 6, 1, 9,
        200000>>, TRUE>>, <<571484, <<164, 71, 167, 163, 70, 230, 30, 200>>, -431, 3, 1, <<6, 5,
        7, 5, 1, 9, 297>>, TRUE>>, <<571682, <<34, 185, 248, 38, 26, 43, 84, 32>>, 0, 18, 2,
        <<2, 5, 2, 4, 1, 9, 200000>>, TRUE>>, <<572185, <<231, 68, 39, 68, 8, 20, 223, 149>>,
        -19987, 20, 2, <<2, 4, 1, 4, 3, 9, 200000>>, TRUE>>, <<573442, <<2, 192, 24, 251, 66,
        120, 7, 32>>, -431, 33, 0, <<0, 2, 1, 2, 1, 9, 200000>>, TRUE>>, <<573447, <<249, 63,
        23, 174, 185, 78, 151, 128>>, 431, 8, 2, <<2, 6, 1, 6, 1, 9, 200000>>, TRUE>>, <<575364,
        <<132, 199, 104, 111, 6, 219, 122, 46>>, -19977, 3, 2, <<7, 4, 6, 4, 3, 1, 200000>>,
        TRUE>>, <<575486, <<2, 56, 71, 192, 168, 180, 223, 194>>, -431, 2, 1, <<1, 5, 1, 4, 1,
        9, 200000>>, TRUE>>, <<575681, <<193, 200, 200, 82, 67, 149, 6, 114>>, -431, 2, 1, <<4,
        0, 3, 0, 3, 9, 213>>, TRUE>>, <<577338, <<58, 207, 152, 60, 82, 111, 78, 48>>, 431, 9,
        2, <<3, 0, 4, 0, 3, 9, 200000>>, TRUE>>, <<577463, <<183, 207, 216, 69, 154, 225, 145,
        72>>, 431, 26, 2, <<2, 1, 2, 2, 1, 9, 200000>>, TRUE>>, <<578080, <<32, 210, 72, 177,
        20, 86, 214, 19>>, -431, 7, 1, <<3, 6, 4, 6, 1, 9, 200000>>, TRUE>>, <<578197, <<107,
        45, 87, 74, 217, 36, 61, 155>>, -431, 2, 1, <<7, 4, 7, 3, 3, 9, 200000>>, TRUE>>,
        <<578475, <<171, 211, 56, 24, 229, 180, 161, 28>>, -2147483646, 1, 1, <<5, 0, 4, 0, 1,
        9, 90000>>, TRUE>>, <<579098, <<230, 41, 183, 135, 35, 63, 138, 193>>, 431, 13, 2, <<6,
        4, 6, 3, 3, 9, 200000>>, TRUE>>, <<579522, <<62, 40, 55, 51, 14, 173, 172, 167>>,
        -19975, 1, 2, <<7, 3, 7, 2, 3, 1, 119600>>, TRUE>>, <<579675, <<165, 39, 55, 233, 221,
        193, 98, 168>>, -19983, 10, 2, <<0, 1, 0, 2, 3, 9, 200000>>, TRUE>>, <<580235, <<139,
        218, 168, 197, 206, 196, 89, 72>>, 2147483646, 2, 2, <<2, 6, 2, 5, 3, 9, 200000>>,
        TRUE>>, <<580253, <<157, 218, 72, 201, 48, 239, 196, 28>>, 0, 5, 1, <<6, 6, 5, 6, 3, 9,
        200000>>, TRUE>>, <<580316, <<36, 37, 247, 2, 170, 247, 32, 192>>, 0, 2, 2, <<3, 6, 2,
        6, 3, 9, 200000>>, TRUE>>, <<580694, <<86, 220, 72, 43, 118, 204, 222, 106>>, 0, 2, 2,
        <<8, 0, 8, 1, 3, 9, 90000>>, TRUE>>, <<580974, <<110, 221, 200, 136, 24, 10, 226, 123>>,
        -2147483646, 12, 1, <<2, 3, 3, 3, 3, 9, 200000>>, TRUE>>, <<581281, <<95, 33, 135, 140,
        35, 137, 126, 249>>, -2147483646, 14, 1, <<2, 1, 2, 0, 1, 9, 200000>>, TRUE>>, <<582409,
        <<247, 28, 247, 165, 4, 132, 28, 244>>, 431, 6, 2, <<6, 5, 7, 5, 1, 9, 200000>>, TRUE>>,
        <<582547, <<109, 28, 183, 71, 100, 215, 138, 138>>, -2147483646, 18, 1, <<3, 3, 2, 3, 1,
        9, 200000>>, TRUE>>, <<582800, <<112, 27, 55, 0, 92, 102, 133, 176>>, -431, 11, 1, <<1,
        5, 1, 4, 1, 9, 200000>>, TRUE>>, <<583059, <<147, 229, 232, 59, 79, 14, 234, 63>>, -431,
        19, 2, <<2, 3, 2, 2, 3, 9, 200000>>, TRUE>>, <<583060, <<108, 26, 135, 124, 158, 254, 9,
        137>>, -431, 31, 2, <<0, 1, 0, 2, 1, 9, 200000>>, TRUE>>, <<583183, <<15, 230, 200, 130,
        209, 206, 175, 26>>, -431, 4, 2, <<2, 5, 2, 4, 3, 9, 200000>>, TRUE>>, <<584178, <<242,
        233, 184, 177, 66, 182, 208, 108>>, -1, 2, 2, <<5, 0, 4, 0, 1, 9, 200000>>, TRUE>>,
        <<584776, <<72, 236, 232, 252, 166, 189, 20, 66>>, 431, 10, 2, <<2, 1, 2, 0, 3, 9,
        864>>, TRUE>>, <<585239, <<23, 238, 72, 28, 138, 95, 108, 109>>, 432, 4, 1, <<1, 4, 1,
        5, 1, 9, 3026>>, TRUE>>, <<585678, <<206, 239, 216, 140, 96, 127, 163, 40>>, -431, 17,
        1, <<0, 1, 0, 2, 1, 9, 200000>>, TRUE>>, <<585679, <<49, 16, 71, 157, 82, 236, 229,
        148>>, 1, 11, 1, <<4, 0, 3, 0, 1, 9, 200000>>, TRUE>>, <<585798, <<70, 240, 104, 165,
        71, 115, 78, 4>>, 431, 25, 2, <<6, 3, 7, 3, 3, 9, 200000>>, TRUE>>, <<586536, <<216, 12,
        71, 250, 46, 141, 17, 157>>, 431, 9, 2, <<6, 4, 6, 3, 3, 9, 200000>>, TRUE>>, <<587586,
        <<190, 8, 7, 72, 166, 29, 95, 234>>, -431, 1, 1, <<1, 6, 1, 5, 1, 9, 90000>>, TRUE>>,
        <<588029, <<253, 248, 216, 17, 95, 215, 231, 68>>, -19991, 20, 2, <<2, 4, 2, 3, 3, 9,
        200000>>, TRUE>>, <<589383, <<185, 1, 215, 148, 86, 14, 62, 214>>, -2147483646, 3, 1,
        <<1, 2, 2, 2, 1, 9, 200000>>, TRUE>>, <<589474, <<94, 1, 119, 135, 234, 70, 73, 166>>,
        -2147483646, 3, 1, <<2, 3, 3, 3, 3, 9, 200000>>, TRUE>>, <<589504, <<192, 254, 72, 166,
        224, 184, 172, 6>>, -431, 1, 1, <<8, 0, 8, 1, 1, 9, 90000>>, TRUE>>, <<589547, <<21, 1,
        119, 160, 163, 6, 168, 197>>, -432, 3, 2, <<1, 0, 1, 1, 3, 9, 2604>>, TRUE>>, <<589724,
        <<156, 255, 8, 135, 90, 41, 80, 107>>, 2147483646, 3, 2, <<3, 0, 2, 0, 1, 9, 200000>>,
        TRUE>>, <<591031, <<73, 251, 102, 172, 57, 195, 39, 246>>, 2147483646, 2, 2, <<2, 6, 2,
        5, 3, 9, 200000>>, TRUE>>, <<591354, <<250, 5, 9, 131, 96, 36, 8, 15>>, -2147483646, 13,
        1, <<2, 2, 2, 3, 3, 9, 200000>>, TRUE>>, <<592114, <<242, 8, 137, 118, 90, 7, 199, 70>>,
        -431, 3, 1, <<0, 6, 1, 6, 1, 9, 200000>>, TRUE>>, <<592925, <<29, 12, 201, 8, 4, 175,
        154, 50>>, 431, 10, 2, <<8, 1, 8, 0, 1, 9, 200000>>, TRUE>>, <<593973, <<53, 16, 153,
        229, 107, 104, 110, 88>>, -431, 20, 1, <<7, 3, 7, 2, 3, 9, 200000>>, TRUE>>, <<594234,
        <<58, 17, 217, 246, 160, 72, 175, 77>>, 432, 10, 1, <<1, 0, 2, 0, 3, 9, 200000>>,
        TRUE>>, <<594565, <<133, 18, 169, 239, 17, 115, 237, 113>>, -19971, 1, 2, <<0, 2, 0, 3,
        3, 9, 119996>>, TRUE>>, <<595172, <<228, 20, 41, 182, 49, 6, 146, 9>>, 0, 13, 2, <<6, 2,
        6, 3, 3, 9, 200000>>, TRUE>>, <<595506, <<50, 22, 249, 200, 99, 133, 25, 126>>, 19968,
        8, 1, <<4, 0, 5, 0, 3, 9, 200000>>, TRUE>>, <<596239, <<241, 230, 118, 90, 136, 164,
        192, 206>>, 19968, 7, 1, <<7, 6, 7, 5, 1, 9, 200000>>, TRUE>>, <<596572, <<92, 26, 57,
        187, 2, 202, 64, 52>>, 0, 3, 1, <<2, 1, 2, 0, 1, 9, 200000>>, TRUE>>, <<596677, <<59,
        229, 38, 145, 103, 137, 185, 157>>, -19987, 22, 2, <<1, 3, 0, 3, 3, 9, 200000>>, TRUE>>,
        <<597461, <<43, 226, 246, 179, 69, 146, 138, 144>>, -2147483646, 2, 1, <<1, 3, 2, 3, 1,
        9, 200000>>, TRUE>>, <<598456, <<72, 222, 38, 226, 83, 5, 179, 129>>, 0, 12, 1, <<3, 0,
        2, 0, 1, 9, 200000>>, TRUE>>, <<598510, <<238, 33, 153, 182, 132, 189, 90, 105>>, 432,
        8, 1, <<4, 3, 3, 3, 3, 9, 200000>>, TRUE>>, <<598513, <<241, 33, 153, 41, 201, 29, 87,
        93>>, 0, 3, 2, <<3, 0, 2, 0, 1, 9, 200000>>, TRUE>>, <<598586, <<198, 221, 6, 34, 48,
        141, 177, 217>>, -2147483646, 19, 1, <<1, 3, 2, 3, 3, 9, 200000>>, TRUE>>, <<600161,
        <<159, 215, 6, 218, 87, 44, 80, 158>>, 2147483646, 6, 2, <<2, 4, 1, 4, 3, 9, 200000>>,
        TRUE>>, <<601042, <<46, 212, 150, 243, 171, 176, 246, 184>>, -431, 3, 1, <<6, 6, 5, 6,
        1, 9, 200000>>, TRUE>>, <<601463, <<119, 45, 201, 130, 109, 121, 19, 17>>, -2147483646,
        20, 1, <<0, 1, 0, 0, 1, 9, 200000>>, TRUE>>, <<602206, <<94, 48, 249, 25, 84, 94, 6,
        9>>, -431, 23, 2, <<1, 0, 0, 0, 1, 9, 200000>>, TRUE>>, <<602611, <<243, 49, 137, 244,
        165, 235, 155, 42>>, -2147483646, 1, 1, <<2, 4, 2, 3, 1, 9, 90000>>, TRUE>>, <<603009,
        <<127, 204, 230, 223, 131, 224, 24, 152>>, -1, 4, 2, <<6, 0, 5, 0, 3, 9, 200000>>,
        TRUE>>, <<603482, <<166, 202, 198, 62, 129, 20, 181, 231>>, 431, 3, 2, <<2, 2, 2, 3, 3,
        9, 90000>>, TRUE>>, <<603746, <<98, 54, 201, 215, 19, 50, 65, 86>>, 431, 3, 2, <<2, 0,
        1, 0, 3, 9, 90000>>, TRUE>>, <<604427, <<11, 57, 153, 158, 149, 197, 18, 64>>, -19975,
        4, 2, <<1, 3, 0, 3, 3, 9, 200000>>, TRUE>>, <<604797, <<131, 197, 6, 154, 124, 118, 154,
        188>>, 432, 9, 1, <<7, 6, 7, 5, 1, 9, 200000>>, TRUE>>, <<606696, <<232, 65, 121, 128,
        59, 225, 146, 81>>, -431, 1, 1, <<6, 4, 6, 3, 1, 9, 460>>, TRUE>>, <<607528, <<40, 69,
        73, 177, 97, 43, 119, 75>>, 431, 25, 2, <<7, 2, 7, 3, 3, 9, 200000>>, TRUE>>, <<608336,
        <<80, 72, 217, 149, 249, 118, 120, 119>>, -431, 1, 1, <<5, 6, 6, 6, 1, 9, 90000>>,
        TRUE>>, <<608936, <<88, 181, 134, 42, 151, 199, 79, 172>>, -431, 3, 1, <<7, 0, 6, 0, 1,
        9, 200000>>, TRUE>>, <<608990, <<222, 74, 169, 134, 163, 231, 21, 55>>, -431, 1, 1, <<4,
        6, 3, 6, 1, 9, 90000>>, TRUE>>, <<610584, <<232, 174, 118, 77, 108, 208, 74, 174>>, 432,
        8, 1, <<2, 3, 3, 3, 3, 9, 200000>>, TRUE>>, <<610950, <<122, 173, 198, 231, 214, 220,
        198, 161>>, -431, 1, 1, <<6, 5, 7, 5, 1, 9, 412>>, TRUE>>, <<611281, <<47, 172, 102,
        176, 60, 171, 86, 137>>, -431, 20, 1, <<7, 3, 7, 4, 3, 9, 200000>>, TRUE>>, <<611392,
        <<192, 171, 22, 120, 216, 67, 152, 250>>, 431, 4, 2, <<1, 4, 1, 3, 3, 9, 200000>>,
        TRUE>>, <<611577, <<7, 171, 70, 165, 228, 30, 213, 228>>, -2147483646, 20, 1, <<2, 3, 2,
        2, 1, 9, 200000>>, TRUE>>, <<611927, <<87, 86, 41, 85, 157, 184, 241, 114>>, 1, 11, 1,
        <<1, 0, 2, 0, 1, 9, 90000>>, TRUE>>, <<612013, <<173, 86, 73, 144, 39, 195, 85, 2>>,
        -19983, 6, 2, <<1, 1, 1, 2, 3, 9, 200000>>, TRUE>>, <<612226, <<130, 87, 249, 192, 3,
        150, 117, 79>>, 431, 13, 2, <<8, 4, 8, 5, 3, 9, 200000>>, TRUE>>, <<613322, <<54, 164,
        246, 79, 26, 143, 250, 134>>, -19979, 12, 2, <<4, 6, 5, 6, 1, 9, 200000>>, TRUE>>,
        <<613713, <<175, 162, 6, 10, 59, 87, 50, 221>>, -432, 3, 2, <<0, 0, 0, 1, 3, 9,
        200000>>, TRUE>>, <<613995, <<149, 161, 150, 108, 221, 24, 196, 240>>, 432, 6, 1, <<1,
        5, 1, 4, 1, 9, 200000>>, TRUE>>, <<614178, <<34, 95, 41, 44, 211, 164, 125, 60>>, 432,
        16, 1, <<2, 2, 2, 3, 3, 9, 200000>>, TRUE>>, <<614864, <<48, 158, 230, 71, 133, 84, 85,
        205>>, 431, 25, 2, <<7, 2, 7, 1, 3, 9, 200000>>, TRUE>>, <<614950, <<38, 98, 9, 90, 55,
        236, 123, 73>>, 0, 3, 1, <<5, 0, 4, 0, 1, 9, 200000>>, TRUE>>, <<615230, <<62, 99, 73,
        59, 24, 75, 193, 15>>, 431, 21, 2, <<6, 3, 7, 3, 3, 9, 200000>>, TRUE>>, <<615411,
        <<243, 99, 217, 207, 169, 194, 255, 116>>, -1, 3, 2, <<6, 1, 6, 0, 3, 9, 32>>, TRUE>>,
        <<615769, <<89, 101, 201, 226, 101, 13, 4, 95>>, -431, 7, 1, <<3, 3, 2, 3, 3, 9,
        200000>>, TRUE>>, <<616813, <<147, 150, 86, 204, 207, 230, 50, 240>>, -431, 10, 1, <<7,
        2, 7, 3, 3, 9, 200000>>, TRUE>>, <<617505, <<223, 147, 166, 99, 91, 203, 17, 214>>,
        -478, 2, 2, <<6, 2, 6, 3, 3, 9, 10155>>, TRUE>>, <<618245, <<251, 144, 150, 18, 155,
        140, 174, 254>>, -431, 7, 1, <<5, 3, 4, 3, 3, 9, 200000>>, TRUE>>, <<618466, <<30, 144,
        230, 65, 150, 148, 192, 216>>, 431, 3, 2, <<5, 6, 4, 6, 3, 9, 200000>>, TRUE>>,
        <<618712, <<216, 112, 185, 142, 60, 60, 186, 124>>, -2147483646, 15, 1, <<1, 4, 2, 4, 3,
        9, 200000>>, TRUE>>, <<618731, <<21, 143, 150, 217, 59, 239, 5, 129>>, -2147483646, 18,
        1, <<2, 2, 2, 3, 1, 9, 200000>>, TRUE>>, <<618951, <<57, 142, 182, 216, 233, 172, 78,
        184>>, -2147483646, 11, 1, <<2, 5, 1, 5, 1, 9, 200000>>, TRUE>>, <<620369, <<81, 119,
        25, 25, 213, 150, 76, 1>>, -2147483646, 22, 1, <<0, 2, 0, 1, 1, 9, 200000>>, TRUE>>,
        <<620667, <<123, 120, 9, 5, 118, 142, 221, 65>>, -19975, 4, 2, <<1, 4, 1, 3, 3, 9,
        200000>>, TRUE>>, <<620824, <<24, 121, 249, 49, 5, 111, 148, 67>>, -431, 4, 1, <<7, 4,
        7, 5, 1, 9, 200000>>, TRUE>>, <<621243, <<187, 122, 89, 81, 187, 82, 215, 73>>, 431, 2,
        2, <<4, 0, 5, 0, 1, 9, 200000>>, TRUE>>, <<623130, <<230, 125, 6, 44, 176, 158, 205,
        177>>, 431, 27, 2, <<5, 3, 6, 3, 3, 9, 200000>>, TRUE>>, <<623286, <<74, 125, 166, 24,
        69, 150, 91, 162>>, 2147483646, 4, 2, <<1, 6, 1, 5, 1, 9, 200000>>, TRUE>>, <<623805,
        <<67, 123, 22, 49, 226, 10, 54, 132>>, 1, 9, 1, <<0, 2, 0, 1, 1, 9, 90000>>, TRUE>>,
        <<623822, <<50, 123, 86, 129, 109, 109, 172, 233>>, -2147483646, 17, 1, <<1, 2, 1, 3, 3,
        9, 200000>>, TRUE>>, <<624011, <<117, 122, 166, 71, 206, 169, 106, 239>>, -2147483646,
        1, 1, <<0, 4, 1, 4, 1, 9, 35043>>, TRUE>>, <<624083, <<211, 133, 89, 215, 184, 253, 88,
        45>>, -2147483646, 21, 1, <<2, 5, 1, 5, 1, 9, 200000>>, TRUE>>, <<624343, <<41, 121, 38,
        71, 185, 18, 247, 164>>, 431, 9, 2, <<7, 6, 7, 5, 1, 9, 200000>>, TRUE>>, <<624356,
        <<228, 134, 185, 130, 155, 223, 208, 72>>, -2147483646, 3, 1, <<2, 3, 3, 3, 3, 9,
        200000>>, TRUE>>, <<624585, <<55, 120, 86, 81, 14, 114, 84, 206>>, -2147483646, 22, 1,
        <<1, 3, 1, 4, 1, 9, 200000>>, TRUE>>, <<624708, <<68, 136, 89, 220, 78, 31, 103, 16>>,
        -2147483646, 28, 1, <<3, 3, 4, 3, 3, 9, 200000>>, TRUE>>, <<624872, <<232, 136, 249,
        232, 187, 23, 241, 3>>, 2147483646, 8, 2, <<1, 6, 0, 6, 1, 9, 200000>>, TRUE>>,
        <<625775, <<145, 115, 230, 10, 39, 223, 203, 212>>, -19975, 14, 2, <<1, 2, 1, 3, 3, 9,
        200000>>, TRUE>>, <<627272, <<72, 146, 153, 164, 108, 207, 159, 10>>, 431, 23, 2, <<5,
        3, 6, 3, 3, 9, 200000>>, TRUE>>, <<627909, <<59, 107, 6, 30, 1, 149, 183, 156>>, 431,
        18, 2, <<2, 5, 1, 5, 1, 9, 200000>>, TRUE>>, <<628467, <<243, 150, 73, 99, 146, 114,
        219, 111>>, -19971, 1, 2, <<1, 3, 0, 3, 3, 9, 90000>>, TRUE>>, <<628758, <<234, 103,
        198, 84, 146, 78, 53, 171>>, -2147483646, 14, 1, <<3, 3, 4, 3, 3, 9, 200000>>, TRUE>>,
        <<628763, <<27, 152, 121, 14, 103, 80, 99, 40>>, -2147483646, 2, 1, <<4, 0, 3, 0, 1, 9,
        200000>>, TRUE>>, <<629221, <<27, 102, 70, 100, 147, 214, 176, 131>>, 2147483646, 10, 2,
        <<2, 3, 3, 3, 3, 9, 200000>>, TRUE>>, <<630079, <<63, 157, 57, 73, 247, 66, 87, 3>>,
        -431, 2, 1, <<7, 1, 7, 2, 3, 9, 200000>>, TRUE>>, <<630471, <<199, 158, 185, 91, 55,
        169, 50, 79>>, -431, 2, 1, <<8, 2, 7, 2, 3, 9, 200000>>, TRUE>>, <<630733, <<205, 159,
        169, 75, 108, 87, 107, 83>>, -19979, 2, 2, <<1, 3, 0, 3, 3, 9, 200000>>, TRUE>>,
        <<630826, <<42, 160, 249, 119, 137, 18, 142, 111>>, -2147483646, 21, 1, <<1, 2, 1, 3, 3,
        9, 200000>>, TRUE>>, <<631021, <<237, 160, 169, 170, 181, 79, 195, 113>>, -2147483646,
        20, 1, <<2, 3, 2, 2, 1, 9, 200000>>, TRUE>>, <<632042, <<234, 164, 201, 70, 211, 216,
        107, 117>>, -431, 9, 1, <<6, 4, 6, 3, 1, 9, 200000>>, TRUE>>, <<632389, <<69, 166, 25,
        72, 60, 229, 193, 50>>, 19970, 3, 1, <<7, 3, 8, 3, 1, 9, 200000>>, TRUE>>, <<632916,
        <<84, 168, 153, 161, 181, 249, 55, 73>>, 431, 11, 2, <<6, 4, 6, 3, 3, 9, 200000>>,
        TRUE>>, <<633712, <<112, 171, 73, 87, 242, 158, 212, 48>>, -19975, 12, 2, <<4, 0, 5, 0,
        1, 9, 200000>>, TRUE>>, <<634073, <<217, 172, 121, 108, 79, 226, 128, 19>>, 0, 2, 1,
        <<7, 4, 7, 3, 3, 9, 200000>>, TRUE>>, <<634844, <<220, 175, 25, 64, 75, 222, 236, 19>>,
        -431, 17, 1, <<4, 6, 5, 6, 1, 9, 200000>>, TRUE>>, <<635012, <<124, 79, 102, 143, 96,
        186, 15, 210>>, -478, 1, 2, <<4, 3, 3, 3, 1, 9, 14>>, TRUE>>, <<635025, <<145, 176, 57,
        97, 79, 194, 89, 6>>, -431, 12, 1, <<7, 3, 6, 3, 3, 9, 200000>>, TRUE>>, <<635375,
        <<239, 177, 25, 101, 128, 9, 23, 12>>, -1, 1, 2, <<6, 6, 5, 6, 3, 9, 90000>>, TRUE>>,
        <<635387, <<5, 78, 246, 99, 12, 39, 44, 192>>, 431, 16, 2, <<2, 3, 2, 2, 1, 9, 200000>>,
        TRUE>>, <<636397, <<19, 74, 22, 65, 84, 170, 90, 141>>, -431, 12, 2, <<1, 1, 1, 2, 3, 9,
        200000>>, TRUE>>, <<636695, <<23, 183, 137, 16, 242, 100, 52, 78>>, -2147483646, 12, 1,
        <<6, 0, 5, 0, 1, 9, 200000>>, TRUE>>, <<636835, <<163, 183, 25, 77, 172, 87, 111, 105>>,
        -431, 2, 1, <<8, 6, 7, 6, 3, 9, 200000>>, TRUE>>, <<637015, <<169, 71, 230, 157, 181,
        25, 200, 244>>, -2147483646, 1, 1, <<1, 5, 1, 4, 1, 9, 200000>>, TRUE>>, <<637258, <<74,
        185, 137, 2, 160, 91, 53, 41>>, -19975, 13, 2, <<7, 0, 6, 0, 1, 9, 200000>>, TRUE>>,
        <<637662, <<222, 186, 57, 127, 158, 59, 165, 115>>, 2147483646, 13, 2, <<4, 3, 5, 3, 1,
        9, 200000>>, TRUE>>, <<637982, <<226, 67, 198, 199, 70, 111, 90, 220>>, 431, 15, 2, <<8,
        1, 8, 2, 3, 9, 200000>>, TRUE>>, <<638328, <<136, 66, 134, 244, 153, 173, 98, 171>>,
        2147483646, 4, 2, <<0, 5, 1, 5, 1, 9, 200000>>, TRUE>>, <<639519, <<225, 61, 134, 220,
        146, 119, 225, 175>>, -2147483646, 12, 1, <<2, 4, 2, 3, 1, 9, 200000>>, TRUE>>,
        <<639554, <<190, 61, 230, 0, 122, 185, 34, 173>>, 0, 3, 1, <<1, 2, 2, 2, 1, 9, 200000>>,
        TRUE>>, <<639726, <<18, 61, 70, 52, 143, 177, 180, 190>>, 431, 9, 2, <<6, 4, 6, 3, 3, 9,
        200000>>, TRUE>>, <<640318, <<62, 197, 137, 206, 152, 68, 163, 98>>, 431, 5, 2, <<1, 5,
        2, 5, 3, 9, 916>>, TRUE>>, <<640609, <<159, 57, 166, 249, 117, 170, 3, 228>>, -431, 1,
        1, <<7, 4, 7, 3, 3, 9, 70995>>, TRUE>>, <<640652, <<116, 57, 6, 134, 7, 33, 250, 201>>,
        -431, 1, 1, <<2, 5, 1, 5, 1, 9, 27203>>, TRUE>>, <<641141, <<117, 200, 121, 68, 133, 64,
        234, 53>>, 431, 26, 2, <<0, 1, 0, 2, 1, 9, 200000>>, TRUE>>, <<641767, <<25, 53, 150,
        182, 162, 89, 104, 197>>, -431, 2, 1, <<6, 2, 7, 2, 3, 9, 19398>>, TRUE>>, <<642262,
        <<42, 51, 198, 201, 199, 137, 100, 219>>, 431, 11, 2, <<8, 5, 8, 6, 3, 9, 200000>>,
        TRUE>>, <<642440, <<136, 205, 105, 166, 246, 117, 102, 53>>, -431, 1, 1, <<7, 6, 7, 5,
        1, 9, 90000>>, TRUE>>, <<642849, <<223, 48, 118, 110, 2, 58, 13, 230>>, -431, 3, 1, <<1,
        0, 0, 0, 3, 9, 200000>>, TRUE>>, <<643151, <<177, 47, 54, 93, 31, 69, 50, 223>>,
        -2147483646, 15, 1, <<2, 6, 3, 6, 1, 9, 200000>>, TRUE>>, <<643275, <<203, 208, 137,
        201, 165, 172, 71, 8>>, -431, 2, 1, <<8, 4, 8, 5, 3, 9, 200000>>, TRUE>>, <<643358,
        <<30, 209, 89, 92, 59, 130, 195, 53>>, -431, 1, 1, <<6, 0, 5, 0, 1, 9, 90000>>, TRUE>>,
        <<643540, <<212, 209, 9, 10, 7, 17, 203, 92>>, 0, 9, 2, <<6, 2, 6, 3, 3, 9, 200000>>,
        TRUE>>, <<643600, <<16, 210, 121, 136, 166, 232, 112, 22>>, -431, 3, 1, <<1, 4, 1, 3, 1,
        9, 200000>>, TRUE>>, <<643660, <<76, 210, 121, 119, 178, 150, 166, 41>>, -431, 16, 1,
        <<5, 6, 4, 6, 1, 9, 200000>>, TRUE>>, <<644765, <<157, 214, 153, 69, 92, 243, 199, 76>>,
        -2147483646, 3, 1, <<1, 4, 1, 5, 1, 9, 200000>>, TRUE>>, <<645257, <<137, 216, 233, 161,
        229, 158, 163, 45>>, -19987, 17, 2, <<0, 4, 0, 3, 3, 9, 200000>>, TRUE>>, <<645475,
        <<157, 38, 38, 141, 60, 40, 5, 132>>, -2147483646, 14, 1, <<0, 1, 0, 0, 1, 9, 200000>>,
        TRUE>>, <<646026, <<118, 36, 166, 172, 26, 243, 196, 247>>, -19975, 19, 2, <<4, 0, 5, 0,
        1, 9, 200000>>, TRUE>>, <<647189, <<235, 31, 86, 136, 89, 186, 39, 136>>, -431, 2, 1,
        <<8, 4, 8, 5, 3, 9, 200000>>, TRUE>>, <<647618, <<62, 30, 134, 29, 199, 148, 163, 181>>,
        -431, 1, 1, <<1, 3, 1, 2, 1, 9, 2496>>, TRUE>>, <<647762, <<174, 29, 38, 125, 129, 95,
        114, 244>>, -431, 31, 2, <<2, 1, 1, 1, 1, 9, 200000>>, TRUE>>, <<648790, <<86, 230, 121,
        231, 172, 79, 71, 49>>, -19971, 3, 2, <<1, 3, 0, 3, 3, 9, 103463>>, TRUE>>, <<648970,
        <<246, 24, 38, 158, 6, 154, 232, 140>>, -2147483646, 23, 1, <<1, 3, 2, 3, 3, 9,
        200000>>, TRUE>>, <<649228, <<12, 232, 121, 141, 127, 222, 216, 85>>, -431, 17, 1, <<2,
        1, 2, 0, 1, 9, 200000>>, TRUE>>, <<649247, <<31, 232, 153, 207, 124, 182, 159, 115>>,
        19984, 6, 2, <<0, 0, 0, 1, 3, 9, 200000>>, TRUE>>, <<649759, <<225, 21, 134, 19, 15,
        136, 150, 186>>, 2147483646, 4, 2, <<1, 0, 0, 0, 3, 9, 200000>>, TRUE>>, <<650795,
        <<213, 17, 38, 187, 232, 102, 147, 222>>, -19971, 4, 2, <<8, 6, 7, 6, 1, 9, 90000>>,
        TRUE>>, <<652359, <<185, 11, 230, 24, 251, 148, 87, 184>>, 0, 7, 1, <<8, 6, 8, 5, 3, 9,
        200000>>, TRUE>>, <<652809, <<9, 246, 233, 20, 3, 105, 98, 92>>, 19984, 16, 2, <<1, 1,
        0, 1, 3, 9, 200000>>, TRUE>>, <<652830, <<226, 9, 86, 121, 115, 178, 192, 143>>,
        -2147483646, 1, 1, <<4, 3, 3, 3, 3, 9, 102537>>, TRUE>>, <<652965, <<165, 246, 201, 222,
        213, 108, 38, 32>>, 431, 1, 2, <<6, 4, 6, 3, 1, 9, 679>>, TRUE>>, <<653746, <<178, 249,
        185, 120, 38, 32, 104, 59>>, -431, 2, 1, <<7, 5, 7, 4, 1, 9, 90000>>, TRUE>>, <<654034,
        <<46, 5, 166, 46, 24, 40, 242, 165>>, -2147483646, 2, 1, <<0, 5, 0, 4, 3, 9, 200000>>,
        TRUE>>, <<654566, <<230, 252, 25, 38, 41, 253, 246, 101>>, 431, 2, 2, <<3, 0, 2, 0, 3,
        9, 200000>>, TRUE>>, <<655118, <<14, 255, 185, 54, 208, 119, 209, 15>>, 431, 5, 2, <<1,
        0, 1, 1, 3, 9, 200000>>, TRUE>>, <<655548, <<68, 255, 229, 231, 222, 183, 233, 220>>,
        19970, 4, 1, <<2, 5, 2, 4, 3, 9, 19025>>, TRUE>>, <<657297, <<111, 248, 101, 44, 138,
        168, 100, 146>>, 431, 15, 2, <<3, 6, 2, 6, 1, 9, 200000>>, TRUE>>, <<659054, <<110, 14,
        138, 153, 58, 148, 188, 17>>, -431, 3, 1, <<1, 2, 2, 2, 1, 9, 200000>>, TRUE>>,
        <<659174, <<230, 14, 74, 205, 214, 143, 211, 49>>, 1, 8, 1, <<8, 2, 7, 2, 3, 9,
        200000>>, TRUE>>, <<659273, <<73, 15, 58, 135, 56, 69, 175, 76>>, 431, 12, 2, <<1, 0, 0,
        0, 1, 9, 200000>>, TRUE>>, <<661134, <<114, 233, 229, 23, 199, 81, 164, 129>>,
        -2147483646, 3, 1, <<2, 4, 1, 4, 3, 9, 200000>>, TRUE>>, <<661308, <<196, 232, 133, 68,
        130, 234, 20, 146>>, 1, 6, 1, <<6, 5, 6, 4, 3, 9, 200000>>, TRUE>>, <<661525, <<21, 24,
        90, 226, 229, 63, 15, 96>>, -19991, 28, 2, <<2, 3, 1, 3, 3, 9, 200000>>, TRUE>>,
        <<661710, <<50, 231, 101, 115, 64, 38, 118, 238>>, -431, 1, 1, <<4, 6, 3, 6, 1, 9,
        90000>>, TRUE>>, <<662110, <<162, 229, 213, 206, 226, 146, 97, 255>>, 432, 14, 1, <<2,
        1, 2, 0, 3, 9, 200000>>, TRUE>>, <<662409, <<137, 27, 122, 91, 123, 255, 74, 69>>, -431,
        12, 2, <<2, 5, 2, 4, 3, 9, 200000>>, TRUE>>, <<662803, <<237, 226, 101, 197, 48, 117,
        188, 142>>, -2147483646, 2, 1, <<6, 5, 7, 5, 1, 9, 200000>>, TRUE>>, <<662818, <<222,
        226, 165, 131, 32, 244, 143, 179>>, 431, 2, 2, <<0, 1, 0, 2, 3, 9, 90000>>, TRUE>>,
        <<663094, <<202, 225, 229, 239, 111, 183, 21, 238>>, -19975, 1, 2, <<7, 1, 8, 1, 3, 1,
        119600>>, TRUE>>, <<663382, <<170, 224, 5, 250, 20, 87, 180, 188>>, -431, 1, 1, <<7, 5,
        7, 4, 1, 9, 90000>>, TRUE>>, <<664669, <<163, 219, 37, 209, 1, 81, 243, 229>>, -431, 16,
        1, <<6, 3, 5, 3, 3, 9, 200000>>, TRUE>>, <<664888, <<56, 37, 26, 140, 32, 199, 76, 65>>,
        -431, 7, 1, <<5, 6, 4, 6, 1, 9, 200000>>, TRUE>>, <<665053, <<35, 218, 133, 48, 119,
        240, 135, 247>>, 2147483646, 1, 2, <<0, 1, 0, 2, 3, 9, 14238>>, TRUE>>, <<667057, <<177,
        45, 170, 120, 209, 69, 1, 102>>, -2147483646, 14, 1, <<5, 0, 4, 0, 1, 9, 200000>>,
        TRUE>>, <<667931, <<27, 49, 10, 162, 62, 172, 84, 14>>, 432, 9, 1, <<7, 6, 7, 5, 1, 9,
        200000>>, TRUE>>, <<668041, <<137, 49, 202, 8, 216, 220, 180, 104>>, -2147483646, 26, 1,
        <<2, 2, 2, 3, 1, 9, 200000>>, TRUE>>, <<668596, <<76, 204, 21, 106, 202, 227, 63, 221>>,
        -2147483646, 20, 1, <<2, 4, 1, 4, 3, 9, 200000>>, TRUE>>, <<669801, <<105, 56, 138, 129,
        187, 185, 201, 4>>, 0, 9, 1, <<6, 4, 6, 3, 3, 9, 200000>>, TRUE>>, <<670000, <<208, 198,
        165, 14, 22, 64, 59, 141>>, 431, 10, 2, <<3, 0, 2, 0, 3, 9, 200000>>, TRUE>>, <<670445,
        <<237, 58, 202, 29, 12, 63, 161, 74>>, -431, 4, 1, <<8, 5, 8, 6, 3, 9, 200000>>, TRUE>>,
        <<670677, <<43, 196, 149, 248, 38, 93, 30, 201>>, 431, 22, 2, <<2, 2, 1, 2, 1, 9,
        200000>>, TRUE>>, <<670948, <<228, 60, 106, 76, 65, 162, 126, 94>>, 431, 15, 2, <<7, 4,
        8, 4, 3, 9, 200000>>, TRUE>>, <<671470, <<238, 62, 26, 140, 210, 184, 36, 110>>, 19970,
        4, 1, <<0, 1, 0, 2, 3, 9, 200000>>, TRUE>>, <<671962, <<218, 64, 42, 93, 57, 157, 72,
        121>>, 431, 1, 2, <<2, 0, 1, 0, 3, 9, 90000>>, TRUE>>, <<672541, <<227, 188, 53, 250,
        142, 235, 33, 221>>, 19987, 1, 2, <<1, 2, 2, 2, 1, 9, 200000>>, TRUE>>, <<672997, <<229,
        68, 154, 15, 214, 185, 222, 111>>, 431, 8, 2, <<6, 6, 5, 6, 1, 9, 200000>>, TRUE>>,
        <<673702, <<166, 71, 250, 85, 201, 175, 119, 88>>, -431, 1, 1, <<1, 5, 1, 4, 1, 9,
        90000>>, TRUE>>, <<673988, <<60, 183, 149, 211, 87, 201, 114, 165>>, -19977, 9, 2, <<6,
        3, 6, 4, 3, 1, 200000>>, TRUE>>, <<675554, <<30, 177, 101, 96, 158, 228, 183, 157>>,
        2147483646, 5, 2, <<0, 2, 1, 2, 1, 9, 200000>>, TRUE>>, <<675688, <<104, 79, 218, 244,
        96, 162, 39, 55>>, 431, 3, 2, <<1, 1, 0, 1, 3, 9, 90000>>, TRUE>>, <<675780, <<196, 79,
        122, 192, 149, 170, 177, 36>>, 19984, 17, 2, <<1, 2, 2, 2, 1, 9, 200000>>, TRUE>>,
        <<676006, <<90, 175, 229, 81, 112, 78, 14, 148>>, -431, 3, 1, <<7, 0, 6, 0, 1, 9,
        200000>>, TRUE>>, <<676550, <<58, 173, 53, 46, 95, 97, 215, 206>>, -431, 2, 1, <<3, 3,
        2, 3, 1, 9, 200000>>, TRUE>>, <<676685, <<77, 83, 170, 114, 82, 186, 115, 102>>, 19987,
        1, 2, <<1, 4, 1, 3, 1, 9, 200000>>, TRUE>>, <<676994, <<126, 171, 229, 168, 26, 34, 184,
        246>>, -19971, 3, 2, <<1, 3, 0, 3, 3, 9, 90000>>, TRUE>>, <<678664, <<8, 91, 138, 43,
        11, 201, 162, 77>>, 431, 2, 2, <<1, 6, 2, 6, 3, 9, 90000>>, TRUE>>, <<678792, <<120,
        164, 133, 64, 152, 156, 168, 191>>, -2147483646, 5, 1, <<0, 2, 1, 2, 3, 9, 200000>>,
        TRUE>>, <<679241, <<183, 162, 69, 131, 57, 40, 17, 161>>, 1, 7, 1, <<5, 0, 4, 0, 1, 9,
        200000>>, TRUE>>, <<679379, <<211, 93, 170, 246, 136, 54, 53, 16>>, 2147483646, 1, 2,
        <<6, 3, 7, 3, 3, 9, 200000>>, TRUE>>, <<679552, <<128, 94, 186, 103, 77, 214, 27, 81>>,
        -431, 1, 1, <<6, 5, 7, 5, 1, 9, 348>>, TRUE>>, <<679830, <<106, 160, 229, 72, 73, 251,
        227, 159>>, 2147483646, 7, 2, <<1, 4, 1, 5, 1, 9, 200000>>, TRUE>>, <<681084, <<132,
        155, 245, 56, 245, 212, 169, 245>>, 431, 3, 2, <<8, 6, 8, 5, 3, 9, 200000>>, TRUE>>,
        <<682221, <<19, 151, 181, 25, 13, 82, 31, 167>>, -431, 32, 2, <<4, 3, 3, 3, 3, 9,
        200000>>, TRUE>>, <<682518, <<234, 149, 165, 104, 116, 99, 33, 251>>, 2147483646, 5, 2,
        <<3, 3, 4, 3, 1, 9, 200000>>, TRUE>>, <<682751, <<255, 106, 122, 210, 61, 3, 238, 116>>,
        -431, 1, 1, <<7, 2, 7, 3, 3, 9, 120128>>, TRUE>>, <<683778, <<2, 111, 106, 48, 78, 54,
        98, 116>>, 432, 8, 1, <<2, 4, 1, 4, 3, 9, 200000>>, TRUE>>, <<684212, <<180, 112, 154,
        11, 146, 235, 122, 47>>, 19984, 15, 2, <<0, 2, 1, 2, 1, 9, 200000>>, TRUE>>, <<684221,
        <<67, 143, 53, 170, 156, 35, 190, 166>>, -2147483646, 2, 1, <<1, 3, 2, 3, 1, 9,
        200000>>, TRUE>>, <<684653, <<147, 141, 53, 93, 143, 31, 140, 185>>, -2147483646, 26, 1,
        <<2, 0, 3, 0, 1, 9, 200000>>, TRUE>>, <<685031, <<231, 115, 202, 160, 238, 76, 218,
        17>>, 431, 24, 2, <<0, 0, 0, 1, 1, 9, 200000>>, TRUE>>, <<685119, <<63, 116, 10, 108, 4,
        129, 48, 76>>, 431, 5, 2, <<0, 6, 1, 6, 1, 9, 200000>>, TRUE>>, <<685603, <<221, 137,
        197, 24, 188, 66, 80, 238>>, -431, 12, 1, <<8, 2, 7, 2, 3, 9, 200000>>, TRUE>>,
        <<685865, <<215, 136, 213, 8, 231, 188, 9, 242>>, -19983, 12, 2, <<1, 3, 0, 3, 3, 9,
        200000>>, TRUE>>, <<685929, <<105, 119, 138, 215, 98, 197, 116, 85>>, 432, 17, 1, <<3,
        6, 2, 6, 1, 9, 2928>>, TRUE>>, <<686129, <<49, 120, 106, 173, 113, 158, 38, 24>>, 431,
        22, 2, <<2, 0, 1, 0, 1, 9, 200000>>, TRUE>>, <<686317, <<237, 120, 90, 139, 133, 132,
        174, 76>>, 2147483646, 5, 2, <<6, 3, 5, 3, 3, 9, 200000>>, TRUE>>, <<686429, <<163, 134,
        213, 182, 221, 177, 67, 199>>, 432, 7, 1, <<7, 5, 7, 4, 1, 9, 90000>>, TRUE>>, <<686852,
        <<252, 132, 133, 254, 239, 160, 233, 252>>, 431, 6, 2, <<3, 0, 4, 0, 3, 9, 200000>>,
        TRUE>>, <<686916, <<68, 123, 122, 43, 164, 254, 189, 44>>, -431, 3, 1, <<6, 1, 6, 0, 1,
        9, 200000>>, TRUE>>, <<686989, <<115, 132, 117, 212, 236, 122, 241, 213>>, 0, 4, 1, <<6,
        4, 7, 4, 3, 9, 200000>>, TRUE>>, <<687081, <<23, 132, 37, 27, 132, 107, 1, 197>>, -431,
        1, 1, <<1, 4, 1, 3, 3, 9, 90000>>, TRUE>>, <<687874, <<254, 128, 149, 25, 22, 97, 70,
        143>>, 431, 15, 2, <<7, 4, 7, 3, 3, 9, 200000>>, TRUE>>, <<689334, <<74, 123, 85, 152,
        165, 95, 190, 145>>, 19970, 6, 1, <<2, 0, 1, 0, 3, 9, 200000>>, TRUE>>, <<689349, <<197,
        132, 218, 32, 208, 32, 115, 119>>, -431, 2, 1, <<6, 2, 6, 3, 3, 9, 200000>>, TRUE>>,
        <<689900, <<236, 134, 42, 249, 106, 141, 56, 64>>, 0, 9, 2, <<7, 1, 7, 2, 3, 9,
        200000>>, TRUE>>, <<690176, <<0, 136, 74, 142, 158, 127, 157, 11>>, -431, 3, 1, <<6, 0,
        5, 0, 1, 9, 200000>>, TRUE>>, <<690785, <<97, 138, 42, 155, 12, 138, 190, 121>>, 1, 7,
        1, <<2, 0, 3, 0, 1, 9, 200000>>, TRUE>>, <<690943, <<1, 117, 53, 119, 235, 154, 191,
        135>>, -431, 9, 1, <<4, 3, 3, 3, 3, 9, 200000>>, TRUE>>, <<691315, <<141, 115, 197, 38,
        87, 67, 19, 215>>, 431, 8, 2, <<3, 0, 2, 0, 1, 9, 200000>>, TRUE>>, <<691332, <<124,
        115, 85, 133, 112, 228, 18, 216>>, -1, 1, 2, <<5, 0, 4, 0, 1, 9, 5194>>, TRUE>>,
        <<691401, <<201, 140, 10, 196, 225, 118, 106, 126>>, 431, 4, 2, <<8, 6, 7, 6, 1, 9,
        90000>>, TRUE>>, <<691686, <<230, 141, 186, 210, 1, 69, 76, 29>>, -431, 15, 1, <<0, 0,
        1, 0, 1, 9, 200000>>, TRUE>>, <<691992, <<232, 112, 21, 174, 156, 90, 216, 223>>, -431,
        13, 1, <<3, 3, 2, 3, 1, 9, 200000>>, TRUE>>, <<692221, <<253, 143, 202, 20, 213, 58, 23,
        80>>, -431, 9, 1, <<1, 2, 1, 3, 3, 9, 200000>>, TRUE>>, <<692525, <<45, 145, 106, 140,
        252, 118, 131, 54>>, -2147483646, 13, 1, <<2, 6, 2, 5, 1, 9, 200000>>, TRUE>>, <<693175,
        <<183, 147, 234, 128, 248, 44, 184, 101>>, 2147483646, 7, 2, <<5, 3, 6, 3, 3, 9,
        200000>>, TRUE>>, <<693279, <<225, 107, 5, 142, 252, 90, 190, 216>>, 1, 9, 1, <<4, 0, 3,
        0, 1, 9, 200000>>, TRUE>>, <<693708, <<52, 106, 213, 27, 98, 116, 58, 229>>, 1, 10, 1,
        <<6, 1, 6, 0, 3, 9, 200000>>, TRUE>>, <<694519, <<9, 103, 5, 12, 196, 53, 158, 253>>,
        -432, 3, 2, <<2, 1, 1, 1, 3, 9, 80>>, TRUE>>, <<694745, <<217, 153, 234, 149, 93, 34, 5,
        73>>, -1, 2, 2, <<5, 6, 4, 6, 3, 9, 200000>>, TRUE>>, <<694763, <<21, 102, 181, 112, 6,
        173, 18, 196>>, -431, 17, 2, <<3, 3, 2, 3, 3, 9, 200000>>, TRUE>>, <<695138, <<98, 155,
        106, 146, 45, 143, 127, 67>>, 431, 19, 2, <<7, 3, 7, 2, 3, 9, 200000>>, TRUE>>,
        <<695153, <<143, 100, 53, 124, 2, 247, 41, 151>>, 431, 16, 2, <<2, 6, 1, 6, 1, 9,
        200000>>, TRUE>>, <<695808, <<0, 158, 74, 103, 37, 50, 55, 110>>, 2147483646, 5, 2, <<3,
        3, 4, 3, 1, 9, 200000>>, TRUE>>, <<696156, <<92, 159, 42, 235, 67, 5, 61, 39>>,
        -2147483646, 7, 1, <<2, 3, 1, 3, 3, 9, 200000>>, TRUE>>, <<696189, <<131, 96, 69, 70, 7,
        53, 248, 203>>, -19983, 12, 2, <<1, 3, 0, 3, 3, 9, 200000>>, TRUE>>, <<696573, <<253,
        160, 170, 163, 155, 103, 24, 15>>, 431, 4, 2, <<2, 4, 1, 4, 1, 9, 200000>>, TRUE>>,
        <<697049, <<217, 162, 234, 254, 190, 184, 210, 107>>, 432, 11, 1, <<6, 6, 7, 6, 1, 9,
        200000>>, TRUE>>, <<698104, <<8, 89, 245, 19, 39, 246, 12, 231>>, 431, 13, 2, <<6, 3, 7,
        3, 3, 9, 200000>>, TRUE>>, <<698454, <<86, 168, 74, 215, 65, 245, 151, 84>>, -19979, 11,
        2, <<2, 6, 3, 6, 3, 1, 200000>>, TRUE>>, <<698626, <<254, 86, 21, 36, 229, 58, 110,
        155>>, 0, 1, 1, <<1, 1, 1, 0, 1, 9, 2284>>, TRUE>>, <<698708, <<84, 169, 170, 5, 8, 163,
        43, 51>>, 431, 15, 2, <<7, 3, 6, 3, 3, 9, 200000>>, TRUE>>, <<698872, <<248, 169, 10,
        49, 253, 171, 189, 32>>, -431, 23, 1, <<1, 2, 2, 2, 1, 9, 200000>>, TRUE>>, <<699424,
        <<32, 172, 122, 120, 64, 29, 233, 37>>, 0, 6, 2, <<7, 0, 7, 1, 3, 9, 39>>, TRUE>>,
        <<699517, <<125, 172, 26, 15, 105, 88, 11, 79>>, 431, 4, 2, <<1, 0, 0, 0, 1, 9,
        200000>>, TRUE>>, <<700079, <<175, 174, 26, 121, 42, 190, 217, 33>>, -2147483646, 2, 1,
        <<7, 1, 6, 1, 1, 9, 200000>>, TRUE>>, <<700292, <<124, 80, 245, 170, 191, 19, 93, 167>>,
        -2147483646, 26, 1, <<2, 3, 3, 3, 3, 9, 200000>>, TRUE>>, <<700293, <<133, 175, 154, 2,
        145, 113, 79, 7>>, -431, 20, 2, <<2, 4, 2, 3, 3, 9, 200000>>, TRUE>>, <<700593, <<79,
        79, 149, 215, 175, 207, 45, 245>>, 1, 1, 1, <<1, 0, 2, 0, 1, 9, 10919>>, TRUE>>,
        <<701624, <<184, 180, 250, 94, 219, 198, 29, 63>>, -1, 1, 2, <<0, 1, 0, 2, 1, 9,
        12727>>, TRUE>>, <<702688, <<32, 71, 149, 207, 98, 105, 253, 139>>, -431, 3, 1, <<1, 3,
        2, 3, 1, 9, 200000>>, TRUE>>, <<702760, <<216, 70, 165, 31, 68, 158, 28, 222>>, 0, 2, 2,
        <<4, 6, 5, 6, 3, 9, 90000>>, TRUE>>, <<702870, <<106, 70, 5, 46, 126, 84, 8, 159>>,
        -19979, 12, 2, <<0, 2, 0, 3, 3, 9, 200000>>, TRUE>>, <<702890, <<86, 70, 149, 185, 33,
        250, 239, 155>>, 2147483646, 4, 2, <<1, 4, 1, 3, 1, 9, 200000>>, TRUE>>, <<705035, <<11,
        194, 250, 235, 185, 128, 2, 122>>, -431, 1, 1, <<3, 0, 2, 0, 3, 9, 756>>, TRUE>>,
        <<705070, <<210, 61, 165, 197, 19, 69, 95, 143>>, 431, 7, 2, <<2, 6, 2, 5, 3, 9,
        200000>>, TRUE>>, <<705518, <<18, 60, 117, 144, 50, 235, 168, 196>>, 431, 27, 2, <<7, 3,
        7, 2, 3, 9, 200000>>, TRUE>>, <<705607, <<71, 196, 122, 86, 64, 224, 195, 84>>, -431,
        12, 1, <<2, 1, 1, 1, 3, 9, 200000>>, TRUE>>, <<706044, <<4, 58, 5, 206, 213, 10, 215,
        129>>, -432, 2, 2, <<2, 4, 2, 5, 1, 9, 200000>>, TRUE>>, <<706233, <<71, 57, 245, 51,
        78, 34, 221, 140>>, 478, 1, 2, <<0, 0, 0, 1, 1, 9, 200000>>, TRUE>>, <<706346, <<42,
        199, 154, 226, 198, 15, 236, 97>>, 2147483646, 3, 2, <<1, 0, 2, 0, 1, 9, 200000>>,
        TRUE>>, <<706856, <<216, 54, 5, 13, 173, 44, 214, 249>>, -2147483646, 19, 1, <<0, 4, 0,
        5, 3, 9, 200000>>, TRUE>>, <<707542, <<214, 203, 106, 113, 224, 152, 138, 100>>, 431, 9,
        2, <<8, 2, 7, 2, 3, 9, 200000>>, TRUE>>, <<709615, <<239, 211, 10, 172, 50, 11, 87,
        121>>, -2147483646, 1, 1, <<1, 5, 1, 4, 1, 9, 90000>>, TRUE>>, <<709876, <<12, 43, 101,
        222, 159, 245, 98, 165>>, 431, 1, 2, <<1, 0, 1, 1, 3, 9, 90000>>, TRUE>>, <<710260,
        <<140, 41, 229, 70, 117, 127, 202, 172>>, 431, 1, 2, <<8, 4, 8, 5, 3, 9, 90000>>,
        TRUE>>, <<710428, <<228, 40, 197, 206, 102, 127, 69, 207>>, 431, 1, 2, <<3, 0, 2, 0, 3,
        9, 185>>, TRUE>>, <<710498, <<98, 215, 234, 97, 200, 16, 224, 35>>, -431, 2, 1, <<1, 5,
        1, 4, 1, 9, 200000>>, TRUE>>, <<710554, <<154, 215, 90, 194, 163, 20, 104, 66>>, -431,
        1, 1, <<8, 6, 7, 6, 1, 9, 40>>, TRUE>>, <<710695, <<39, 216, 74, 92, 141, 94, 156,
        127>>, 19968, 1, 1, <<6, 4, 7, 4, 1, 9, 472>>, TRUE>>, <<711030, <<118, 217, 154, 133,
        113, 125, 132, 66>>, 19987, 2, 2, <<0, 4, 0, 5, 3, 9, 200000>>, TRUE>>, <<711262, <<162,
        37, 85, 163, 238, 88, 101, 233>>, 431, 23, 2, <<7, 1, 7, 2, 3, 9, 200000>>, TRUE>>,
        <<711887, <<49, 35, 245, 73, 62, 166, 154, 248>>, -19983, 6, 2, <<0, 2, 0, 3, 3, 9,
        200000>>, TRUE>>, <<712570, <<122, 223, 26, 81, 87, 126, 77, 96>>, 431, 23, 2, <<4, 3,
        5, 3, 3, 9, 200000>>, TRUE>>, <<712614, <<90, 32, 53, 157, 50, 203, 113, 209>>, 431, 7,
        2, <<7, 4, 7, 3, 3, 9, 200000>>, TRUE>>, <<712679, <<25, 32, 5, 158, 231, 61, 188,
        173>>, -431, 1, 1, <<2, 5, 2, 4, 3, 9, 19025>>, TRUE>>, <<713139, <<179, 225, 250, 245,
        235, 50, 113, 31>>, -431, 1, 1, <<0, 1, 0, 2, 3, 9, 14239>>, TRUE>>, <<713311, <<95,
        226, 90, 197, 170, 93, 255, 10>>, 432, 5, 1, <<1, 1, 0, 1, 1, 9, 200000>>, TRUE>>,
        <<713948, <<36, 27, 213, 227, 222, 22, 222, 150>>, -2147483646, 2, 1, <<6, 3, 5, 3, 3,
        9, 200000>>, TRUE>>, <<713952, <<224, 228, 218, 78, 234, 234, 98, 96>>, 1, 4, 1, <<8, 0,
        8, 1, 3, 9, 200000>>, TRUE>>, <<714549, <<53, 231, 10, 150, 180, 50, 153, 38>>, -431, 3,
        1, <<3, 0, 2, 0, 3, 9, 200000>>, TRUE>>, <<714762, <<246, 23, 133, 4, 95, 19, 64, 150>>,
        -431, 3, 1, <<2, 5, 1, 5, 1, 9, 27194>>, TRUE>>, <<715793, <<17, 236, 42, 8, 194, 176,
        250, 120>>, -19987, 22, 2, <<0, 2, 0, 3, 3, 9, 200000>>, TRUE>>, <<716201, <<169, 237,
        186, 242, 104, 145, 157, 118>>, -19979, 12, 2, <<2, 4, 2, 3, 3, 9, 200000>>, TRUE>>,
        <<716710, <<90, 16, 197, 16, 171, 104, 45, 224>>, -2147483646, 2, 1, <<4, 3, 5, 3, 3, 9,
        200000>>, TRUE>>, <<717611, <<43, 243, 74, 194, 183, 156, 130, 32>>, -431, 6, 1, <<8, 2,
        7, 2, 3, 9, 200000>>, TRUE>>, <<717763, <<61, 12, 5, 87, 171, 146, 205, 158>>, -19975,
        16, 2, <<2, 2, 1, 2, 3, 9, 200000>>, TRUE>>, <<719367, <<7, 250, 218, 140, 3, 247, 175,
        64>>, -19979, 2, 2, <<2, 3, 1, 3, 3, 9, 200000>>, TRUE>>, <<719790, <<174, 251, 250,
        165, 217, 5, 26, 51>>, 2147483646, 1, 2, <<2, 4, 2, 3, 1, 9, 44608>>, TRUE>>, <<720968,
        <<184, 255, 100, 221, 172, 165, 163, 190>>, 431, 11, 2, <<7, 3, 7, 2, 3, 9, 200000>>,
        TRUE>>, <<721530, <<134, 253, 20, 164, 107, 223, 154, 254>>, 432, 5, 1, <<2, 4, 1, 4, 3,
        9, 200000>>, TRUE>>, <<721581, <<83, 253, 244, 25, 80, 148, 192, 208>>, -19987, 10, 2,
        <<1, 5, 1, 4, 3, 9, 200000>>, TRUE>>, <<721622, <<42, 253, 180, 144, 158, 215, 12,
        237>>, -431, 17, 2, <<1, 2, 1, 1, 1, 9, 200000>>, TRUE>>, <<722089, <<87, 251, 36, 163,
        242, 13, 254, 202>>, 2147483646, 3, 2, <<7, 3, 6, 3, 3, 9, 200000>>, TRUE>>, <<723176,
        <<232, 8, 107, 124, 200, 120, 186, 3>>, -431, 13, 2, <<3, 0, 2, 0, 1, 9, 200000>>,
        TRUE>>, <<723384, <<72, 246, 52, 5, 98, 173, 21, 190>>, -431, 4, 1, <<7, 4, 7, 5, 1, 9,
        200000>>, TRUE>>, <<724252, <<28, 13, 59, 54, 18, 27, 72, 117>>, -431, 1, 1, <<7, 6, 7,
        5, 1, 9, 90000>>, TRUE>>, <<724299, <<181, 242, 68, 174, 125, 217, 7, 152>>, -19983, 12,
        2, <<0, 4, 0, 3, 3, 9, 200000>>, TRUE>>, <<724344, <<120, 13, 107, 249, 122, 10, 184,
        101>>, -19987, 19, 2, <<2, 2, 1, 2, 1, 9, 200000>>, TRUE>>, <<724421, <<197, 13, 203,
        253, 146, 21, 34, 80>>, 1, 9, 1, <<2, 0, 3, 0, 1, 9, 200000>>, TRUE>>, <<725636, <<132,
        18, 43, 24, 66, 134, 94, 86>>, -431, 27, 0, <<1, 4, 1, 5, 1, 9, 200000>>, TRUE>>,
        <<726566, <<218, 233, 52, 229, 107, 83, 206, 167>>, -431, 1, 1, <<5, 3, 4, 3, 1, 9,
        90000>>, TRUE>>, <<727100, <<60, 24, 75, 146, 63, 198, 147, 43>>, -431, 10, 1, <<6, 6,
        5, 6, 1, 9, 200000>>, TRUE>>, <<727298, <<254, 230, 180, 135, 207, 35, 15, 139>>, 0, 2,
        1, <<1, 0, 2, 0, 1, 9, 200000>>, TRUE>>, <<727542, <<246, 25, 75, 73, 153, 90, 32, 5>>,
        0, 3, 1, <<5, 0, 4, 0, 1, 9, 200000>>, TRUE>>, <<728176, <<144, 227, 52, 48, 195, 98,
        87, 212>>, -431, 21, 1, <<2, 2, 2, 3, 1, 9, 200000>>, TRUE>>, <<729620, <<236, 221, 164,
        96, 69, 75, 223, 189>>, -2147483646, 3, 1, <<1, 1, 1, 2, 3, 9, 200000>>, TRUE>>,
        <<730015, <<97, 220, 132, 208, 30, 240, 136, 152>>, -431, 16, 1, <<6, 3, 5, 3, 3, 9,
        200000>>, TRUE>>, <<730516, <<108, 218, 52, 204, 46, 2, 100, 141>>, 2147483646, 1, 2,
        <<4, 0, 3, 0, 1, 9, 29719>>, TRUE>>, <<730715, <<91, 38, 11, 111, 91, 106, 71, 98>>,
        -2147483646, 15, 1, <<4, 6, 3, 6, 1, 9, 200000>>, TRUE>>, <<731478, <<170, 214, 132,
        244, 120, 106, 157, 237>>, -431, 3, 1, <<6, 5, 7, 5, 1, 9, 200000>>, TRUE>>, <<731565,
        <<173, 41, 235, 88, 153, 166, 37, 30>>, -19987, 22, 2, <<0, 4, 0, 3, 3, 9, 200000>>,
        TRUE>>, <<732242, <<82, 44, 187, 211, 173, 32, 46, 3>>, 0, 17, 2, <<6, 2, 6, 3, 3, 9,
        200000>>, TRUE>>, <<732326, <<90, 211, 68, 29, 251, 89, 1, 141>>, 431, 5, 2, <<6, 6, 5,
        6, 3, 9, 200000>>, TRUE>>, <<732671, <<255, 45, 203, 62, 92, 149, 179, 32>>, -431, 16,
        2, <<2, 2, 2, 3, 3, 9, 200000>>, TRUE>>, <<732954, <<230, 208, 244, 125, 187, 19, 85,
        134>>, 19976, 5, 1, <<8, 2, 8, 3, 1, 9, 200000>>, TRUE>>, <<733070, <<114, 208, 228, 24,
        180, 102, 252, 193>>, 432, 8, 1, <<0, 0, 0, 1, 3, 9, 200000>>, TRUE>>, <<733264, <<176,
        207, 212, 51, 78, 243, 206, 142>>, -2147483646, 2, 1, <<2, 4, 2, 3, 3, 9, 200000>>,
        TRUE>>, <<733560, <<136, 206, 196, 57, 57, 113, 20, 224>>, -431, 1, 1, <<7, 0, 6, 0, 1,
        9, 90000>>, TRUE>>, <<734323, <<141, 203, 180, 192, 32, 53, 16, 233>>, -431, 5, 1, <<4,
        0, 3, 0, 3, 9, 90000>>, TRUE>>, <<736078, <<78, 59, 59, 82, 203, 20, 201, 89>>, -431, 6,
        1, <<6, 6, 5, 6, 1, 9, 200000>>, TRUE>>, <<736686, <<82, 194, 52, 149, 124, 116, 244,
        166>>, -19979, 12, 2, <<1, 3, 0, 3, 3, 9, 120080>>, TRUE>>, <<738094, <<46, 67, 107,
        230, 42, 218, 85, 54>>, -431, 3, 1, <<3, 6, 4, 6, 1, 9, 90000>>, TRUE>>, <<738949,
        <<123, 185, 4, 83, 11, 237, 44, 187>>, -431, 8, 1, <<7, 3, 6, 3, 3, 9, 200000>>, TRUE>>,
        <<739098, <<230, 184, 132, 234, 38, 189, 13, 200>>, 432, 10, 1, <<3, 3, 2, 3, 3, 9,
        200000>>, TRUE>>, <<739212, <<116, 184, 68, 64, 192, 205, 237, 174>>, -2147483646, 2, 1,
        <<1, 0, 1, 1, 3, 9, 200000>>, TRUE>>, <<739623, <<39, 73, 91, 69, 36, 184, 11, 111>>,
        2147483646, 5, 2, <<6, 3, 5, 3, 3, 9, 200000>>, TRUE>>, <<739699, <<141, 182, 228, 100,
        201, 33, 78, 199>>, 431, 28, 2, <<1, 1, 0, 1, 1, 9, 200000>>, TRUE>>, <<739723, <<139,
        73, 251, 113, 209, 176, 157, 124>>, 431, 26, 2, <<1, 2, 0, 2, 1, 9, 200000>>, TRUE>>,
        <<739875, <<35, 74, 203, 231, 11, 93, 192, 102>>, 431, 6, 2, <<2, 4, 2, 3, 1, 9,
        200000>>, TRUE>>, <<740599, <<9, 179, 116, 158, 16, 199, 158, 145>>, 19970, 3, 1, <<7,
        3, 8, 3, 1, 9, 90000>>, TRUE>>, <<740676, <<68, 77, 219, 26, 216, 60, 167, 105>>, 431,
        10, 2, <<5, 3, 6, 3, 3, 9, 97555>>, TRUE>>, <<741022, <<98, 177, 148, 172, 45, 201, 128,
        180>>, -19991, 9, 2, <<2, 0, 3, 0, 1, 9, 200000>>, TRUE>>, <<741646, <<14, 81, 251, 142,
        245, 42, 8, 92>>, -2147483646, 12, 1, <<1, 2, 1, 3, 3, 9, 200000>>, TRUE>>, <<743084,
        <<84, 169, 196, 224, 110, 185, 103, 166>>, -2147483646, 1, 1, <<2, 2, 2, 3, 3, 9,
        93998>>, TRUE>>, <<743237, <<187, 168, 100, 125, 215, 109, 137, 177>>, -19987, 14, 2,
        <<0, 5, 0, 4, 3, 9, 200000>>, TRUE>>, <<743638, <<214, 88, 171, 95, 120, 182, 163, 45>>,
        -2147483646, 3, 1, <<2, 3, 3, 3, 3, 9, 200000>>, TRUE>>, <<743671, <<9, 167, 196, 242,
        60, 134, 102, 193>>, -19975, 12, 2, <<1, 3, 2, 3, 3, 9, 200000>>, TRUE>>, <<743882,
        <<54, 166, 36, 114, 15, 241, 153, 174>>, -19983, 12, 2, <<2, 6, 3, 6, 1, 9, 200000>>,
        TRUE>>, <<743899, <<37, 166, 100, 249, 13, 225, 207, 199>>, -2147483646, 1, 1, <<1, 4,
        1, 3, 1, 9, 200000>>, TRUE>>, <<744348, <<156, 91, 43, 71, 204, 44, 25, 72>>,
        -2147483646, 3, 1, <<1, 1, 1, 2, 3, 9, 200000>>, TRUE>>, <<745354, <<138, 95, 203, 101,
        148, 161, 111, 5>>, -431, 21, 1, <<2, 0, 3, 0, 1, 9, 200000>>, TRUE>>, <<746806, <<54,
        101, 251, 25, 103, 236, 11, 124>>, -431, 11, 1, <<6, 1, 6, 0, 1, 9, 200000>>, TRUE>>,
        <<747712, <<192, 104, 203, 49, 81, 151, 25, 9>>, 478, 2, 2, <<2, 4, 1, 4, 3, 9, 90000>>,
        TRUE>>, <<748949, <<149, 109, 75, 146, 45, 94, 108, 65>>, 431, 28, 2, <<0, 0, 1, 0, 1,
        9, 200000>>, TRUE>>, <<749281, <<225, 110, 187, 48, 1, 158, 77, 120>>, 1, 11, 1, <<3, 0,
        4, 0, 1, 9, 200000>>, TRUE>>, <<749364, <<52, 111, 107, 165, 159, 176, 201, 69>>, 431,
        13, 2, <<8, 4, 8, 5, 3, 9, 200000>>, TRUE>>, <<749369, <<57, 111, 203, 145, 226, 139,
        53, 76>>, -2147483646, 3, 1, <<0, 4, 1, 4, 1, 9, 200000>>, TRUE>>, <<749503, <<65, 144,
        228, 73, 171, 75, 226, 197>>, 19968, 3, 1, <<7, 4, 7, 3, 1, 9, 90000>>, TRUE>>,
        <<749613, <<211, 143, 228, 169, 162, 181, 57, 220>>, -2147483646, 3, 1, <<5, 3, 4, 3, 1,
        9, 200000>>, TRUE>>, <<751448, <<88, 119, 171, 13, 52, 169, 100, 74>>, 431, 7, 2, <<7,
        6, 6, 6, 3, 9, 200000>>, TRUE>>, <<752401, <<17, 123, 155, 210, 1, 148, 95, 31>>, -478,
        2, 2, <<6, 3, 5, 3, 3, 9, 5346>>, TRUE>>, <<753314, <<162, 126, 219, 58, 193, 158, 130,
        20>>, 432, 7, 1, <<1, 1, 0, 1, 3, 9, 200000>>, TRUE>>, <<753345, <<63, 129, 100, 202,
        108, 96, 102, 177>>, -2147483646, 1, 1, <<4, 0, 3, 0, 1, 9, 4955>>, TRUE>>, <<754960,
        <<16, 133, 235, 160, 238, 157, 201, 19>>, 431, 9, 2, <<7, 1, 7, 2, 3, 9, 200000>>,
        TRUE>>, <<756649, <<169, 139, 59, 99, 69, 95, 96, 69>>, -2147483646, 3, 1, <<0, 0, 0, 1,
        1, 9, 200000>>, TRUE>>, <<758104, <<88, 145, 27, 70, 84, 46, 39, 102>>, 431, 2, 2, <<0,
        1, 0, 2, 3, 9, 14252>>, TRUE>>, <<758571, <<43, 147, 11, 177, 101, 161, 227, 16>>,
        2147483646, 2, 2, <<2, 3, 3, 3, 3, 9, 200000>>, TRUE>>, <<759966, <<158, 152, 171, 203,
        169, 159, 142, 16>>, 431, 19, 2, <<7, 3, 7, 2, 3, 9, 200000>>, TRUE>>, <<759985, <<79,
        103, 84, 251, 27, 116, 30, 142>>, -19991, 26, 2, <<2, 2, 1, 2, 3, 9, 200000>>, TRUE>>,
        <<760773, <<59, 100, 20, 155, 247, 12, 124, 196>>, -431, 2, 1, <<6, 2, 6, 3, 3, 9,
        200000>>, TRUE>>, <<762041, <<71, 95, 116, 162, 99, 236, 32, 191>>, -431, 9, 1, <<1, 1,
        1, 2, 3, 9, 200000>>, TRUE>>, <<762596, <<28, 93, 180, 67, 213, 84, 39, 212>>, -431, 12,
        1, <<5, 6, 6, 6, 1, 9, 200000>>, TRUE>>, <<763030, <<150, 164, 107, 79, 250, 162, 254,
        51>>, -431, 5, 1, <<6, 6, 5, 6, 1, 9, 200000>>, TRUE>>, <<763120, <<240, 164, 219, 173,
        125, 205, 184, 96>>, -19983, 13, 2, <<0, 1, 0, 0, 1, 9, 200000>>, TRUE>>, <<763164,
        <<228, 90, 20, 129, 164, 123, 30, 201>>, -2147483646, 22, 1, <<1, 4, 2, 4, 3, 9,
        200000>>, TRUE>>, <<763868, <<36, 88, 20, 139, 226, 232, 89, 203>>, -431, 2, 1, <<1, 4,
        1, 5, 1, 9, 200000>>, TRUE>>, <<764081, <<79, 87, 100, 147, 123, 210, 82, 249>>, -431,
        8, 1, <<7, 3, 6, 3, 3, 9, 200000>>, TRUE>>, <<764420, <<4, 170, 75, 25, 169, 167, 144,
        16>>, 431, 1, 2, <<8, 4, 8, 5, 3, 9, 90000>>, TRUE>>, <<764699, <<27, 171, 203, 218, 11,
        26, 28, 68>>, -431, 2, 1, <<6, 2, 6, 3, 3, 9, 200000>>, TRUE>>, <<765024, <<96, 172, 59,
        152, 120, 173, 176, 70>>, -2147483646, 2, 1, <<0, 5, 0, 4, 3, 9, 200000>>, TRUE>>,
        <<765404, <<220, 173, 203, 125, 94, 160, 143, 59>>, -431, 22, 0, <<2, 6, 2, 5, 1, 9,
        200000>>, TRUE>>, <<765710, <<242, 80, 228, 45, 88, 33, 234, 212>>, 431, 5, 2, <<2, 5,
        2, 4, 3, 9, 200000>>, TRUE>>, <<766082, <<130, 176, 59, 17, 152, 63, 82, 20>>,
        -2147483646, 3, 1, <<2, 3, 3, 3, 3, 9, 200000>>, TRUE>>, <<766148, <<60, 79, 100, 206,
        29, 70, 47, 179>>, -19983, 14, 2, <<3, 6, 4, 6, 1, 9, 200000>>, TRUE>>, <<766180, <<28,
        79, 4, 48, 146, 193, 183, 180>>, 19978, 1, 1, <<7, 3, 8, 3, 1, 9, 90000>>, TRUE>>,
        <<766988, <<12, 180, 75, 72, 29, 19, 241, 120>>, 431, 17, 2, <<7, 2, 7, 3, 3, 9,
        200000>>, TRUE>>, <<767882, <<138, 183, 139, 3, 62, 185, 11, 112>>, -431, 3, 1, <<1, 2,
        2, 2, 1, 9, 90000>>, TRUE>>, <<767906, <<94, 72, 196, 46, 60, 64, 208, 216>>, 431, 15,
        2, <<8, 2, 7, 2, 3, 9, 200000>>, TRUE>>, <<768648, <<136, 186, 123, 163, 124, 152, 150,
        33>>, -431, 21, 2, <<2, 0, 1, 0, 1, 9, 200000>>, TRUE>>, <<768740, <<228, 186, 11, 102,
        205, 12, 255, 4>>, -431, 1, 1, <<7, 5, 7, 4, 1, 9, 90000>>, TRUE>>, <<769228, <<52, 67,
        148, 180, 231, 200, 96, 138>>, -431, 13, 1, <<2, 6, 1, 6, 1, 9, 200000>>, TRUE>>,
        <<769440, <<160, 189, 91, 182, 164, 45, 21, 76>>, 431, 23, 2, <<7, 3, 6, 3, 3, 9,
        200000>>, TRUE>>, <<770494, <<66, 62, 20, 176, 0, 89, 88, 197>>, -431, 1, 1, <<2, 2, 2,
        3, 1, 9, 90000>>, TRUE>>, <<771120, <<208, 59, 212, 145, 45, 74, 211, 185>>, 431, 27, 2,
        <<7, 3, 7, 2, 3, 9, 200000>>, TRUE>>, <<771587, <<253, 57, 52, 228, 60, 87, 248, 173>>,
        431, 4, 2, <<1, 4, 1, 5, 1, 9, 1591>>, TRUE>>, <<772414, <<62, 201, 187, 118, 215, 118,
        33, 29>>, 431, 4, 2, <<4, 0, 3, 0, 3, 9, 200000>>, TRUE>>, <<773592, <<216, 205, 75,
        192, 254, 111, 227, 86>>, -431, 18, 2, <<0, 5, 0, 6, 1, 9, 200000>>, TRUE>>, <<773696,
        <<64, 206, 59, 189, 75, 232, 142, 35>>, 0, 1, 2, <<6, 2, 6, 3, 3, 9, 84072>>, TRUE>>,
        <<775915, <<21, 41, 212, 124, 91, 39, 64, 207>>, 19970, 3, 1, <<7, 3, 8, 3, 1, 9,
        90000>>, TRUE>>, <<775935, <<255, 214, 11, 88, 21, 14, 60, 5>>, -431, 3, 1, <<3, 0, 2,
        0, 3, 9, 200000>>, TRUE>>, <<776644, <<60, 38, 132, 202, 254, 47, 229, 181>>, -431, 3,
        1, <<1, 6, 1, 5, 1, 9, 200000>>, TRUE>>, <<776888, <<184, 218, 139, 220, 79, 246, 231,
        104>>, -19971, 2, 2, <<6, 5, 7, 5, 1, 9, 200000>>, TRUE>>, <<777600, <<128, 34, 84, 138,
        244, 170, 126, 149>>, -19987, 23, 2, <<2, 3, 2, 2, 1, 9, 200000>>, TRUE>>, <<777632,
        <<96, 34, 244, 162, 241, 249, 30, 148>>, 0, 17, 2, <<7, 1, 7, 2, 3, 9, 200000>>, TRUE>>,
        <<778176, <<64, 32, 180, 251, 154, 188, 84, 134>>, -2147483646, 23, 1, <<1, 3, 1, 4, 3,
        9, 200000>>, TRUE>>, <<778901, <<107, 29, 84, 82, 154, 12, 242, 206>>, -432, 1, 2, <<1,
        1, 1, 0, 3, 9, 90000>>, TRUE>>, <<779633, <<143, 26, 68, 36, 200, 133, 162, 223>>, 432,
        10, 1, <<1, 4, 1, 5, 1, 9, 200000>>, TRUE>>, <<780080, <<208, 24, 228, 196, 228, 103,
        218, 240>>, 431, 10, 2, <<1, 0, 2, 0, 3, 9, 756>>, TRUE>>, <<780828, <<228, 21, 68, 97,
        174, 198, 90, 128>>, -19975, 13, 2, <<5, 0, 6, 0, 1, 9, 200000>>, TRUE>>, <<781434,
        <<134, 19, 180, 135, 73, 89, 201, 132>>, 431, 11, 2, <<7, 4, 7, 3, 3, 9, 200000>>,
        TRUE>>, <<782281, <<55, 16, 36, 174, 181, 197, 111, 162>>, -2147483646, 2, 1, <<6, 6, 5,
        6, 1, 9, 200000>>, TRUE>>, <<782312, <<232, 239, 59, 56, 30, 188, 75, 2>>, -431, 2, 1,
        <<1, 5, 2, 5, 1, 9, 2147>>, TRUE>>, <<783455, <<161, 11, 180, 43, 26, 67, 232, 232>>,
        -431, 3, 1, <<2, 0, 1, 0, 3, 9, 200000>>, TRUE>>, <<783649, <<33, 245, 219, 172, 20,
        212, 240, 100>>, -2147483646, 3, 1, <<1, 2, 2, 2, 1, 9, 200000>>, TRUE>>, <<783653,
        <<37, 245, 107, 115, 169, 107, 235, 18>>, -2147483646, 13, 1, <<0, 4, 0, 5, 1, 9,
        200000>>, TRUE>>, <<783757, <<141, 245, 123, 152, 225, 220, 102, 119>>, -432, 2, 2, <<2,
        1, 2, 2, 3, 9, 21257>>, TRUE>>, <<783821, <<51, 10, 36, 230, 181, 101, 164, 172>>, 1, 9,
        1, <<4, 0, 5, 0, 1, 9, 200000>>, TRUE>>, <<783998, <<130, 9, 100, 222, 189, 25, 118,
        151>>, -352, 2, 0, <<7, 2, 8, 2, 1, 9, 0>>, TRUE>>, <<784231, <<103, 247, 155, 101, 105,
        176, 213, 51>>, -2147483646, 1, 1, <<1, 3, 2, 3, 1, 9, 90000>>, TRUE>>, <<784305, <<177,
        247, 107, 17, 182, 96, 231, 117>>, -1, 2, 2, <<6, 5, 6, 4, 3, 9, 49>>, TRUE>>, <<784450,
        <<190, 7, 164, 247, 249, 24, 229, 201>>, -19983, 3, 2, <<2, 5, 2, 6, 1, 9, 200000>>,
        TRUE>>, <<784750, <<146, 6, 132, 246, 43, 91, 174, 240>>, -431, 15, 2, <<2, 2, 2, 1, 1,
        9, 200000>>, TRUE>>, <<786285, <<147, 0, 84, 34, 76, 188, 109, 200>>, 431, 6, 2, <<0, 2,
        0, 1, 1, 9, 200000>>, TRUE>>, <<787761, <<49, 5, 12, 209, 245, 79, 185, 33>>,
        -2147483646, 20, 1, <<0, 5, 1, 5, 1, 9, 200000>>, TRUE>>, <<788162, <<62, 249, 3, 194,
        243, 87, 53, 169>>, -431, 3, 1, <<6, 5, 7, 5, 1, 9, 200000>>, TRUE>>, <<788436, <<212,
        7, 92, 237, 247, 122, 205, 103>>, -19987, 23, 2, <<1, 4, 1, 5, 1, 9, 200000>>, TRUE>>,
        <<788443, <<37, 248, 227, 183, 2, 100, 155, 228>>, -19975, 20, 2, <<3, 3, 2, 3, 3, 9,
        200000>>, TRUE>>, <<788456, <<232, 7, 204, 122, 168, 212, 42, 99>>, 431, 11, 2, <<7, 3,
        6, 3, 3, 9, 200000>>, TRUE>>, <<789039, <<209, 245, 83, 73, 248, 147, 55, 248>>, 431, 2,
        2, <<1, 5, 1, 4, 1, 9, 200000>>, TRUE>>, <<789311, <<63, 11, 92, 110, 69, 252, 29,
        119>>, -431, 2, 1, <<7, 4, 7, 3, 3, 9, 200000>>, TRUE>>, <<789701, <<59, 243, 83, 36,
        185, 11, 0, 212>>, 1, 5, 1, <<3, 0, 2, 0, 1, 9, 200000>>, TRUE>>, <<789895, <<135, 13,
        188, 71, 252, 229, 49, 69>>, -19975, 13, 2, <<5, 3, 4, 3, 3, 9, 200000>>, TRUE>>,
        <<789896, <<120, 242, 35, 86, 206, 118, 119, 249>>, 431, 17, 2, <<6, 2, 6, 3, 3, 9,
        200000>>, TRUE>>, <<790292, <<20, 15, 204, 164, 233, 111, 245, 9>>, -431, 9, 1, <<7, 3,
        6, 3, 1, 9, 200000>>, TRUE>>, <<790788, <<252, 238, 99, 32, 6, 228, 255, 194>>, 432, 9,
        1, <<1, 2, 1, 3, 3, 9, 200000>>, TRUE>>, <<790960, <<80, 238, 67, 204, 55, 106, 121,
        217>>, 0, 2, 2, <<5, 0, 4, 0, 3, 9, 286>>, TRUE>>, <<791591, <<217, 235, 83, 24, 76, 39,
        86, 144>>, 431, 8, 2, <<0, 5, 1, 5, 1, 9, 200000>>, TRUE>>, <<792362, <<214, 232, 99,
        81, 222, 35, 9, 207>>, -2147483646, 3, 1, <<0, 2, 0, 1, 3, 9, 200000>>, TRUE>>,
        <<792454, <<122, 232, 195, 101, 43, 43, 159, 220>>, 19984, 13, 2, <<1, 2, 0, 2, 1, 3,
        200000>>, TRUE>>, <<792748, <<84, 231, 35, 143, 217, 173, 24, 251>>, 2147483646, 3, 2,
        <<2, 3, 3, 3, 1, 9, 1718>>, TRUE>>, <<793705, <<151, 227, 115, 95, 109, 9, 4, 157>>,
        -2147483646, 2, 1, <<2, 0, 3, 0, 1, 9, 200000>>, TRUE>>, <<795715, <<189, 219, 83, 8,
        75, 237, 190, 215>>, 2147483646, 9, 2, <<4, 3, 3, 3, 3, 9, 200000>>, TRUE>>, <<795887,
        <<17, 219, 243, 60, 190, 229, 40, 196>>, -2147483646, 29, 1, <<1, 2, 2, 2, 1, 9,
        200000>>, TRUE>>, <<797023, <<161, 214, 3, 3, 68, 178, 141, 203>>, 431, 12, 2, <<2, 1,
        2, 2, 1, 9, 200000>>, TRUE>>, <<797916, <<36, 211, 115, 171, 27, 35, 94, 212>>, -431, 3,
        1, <<0, 4, 1, 4, 1, 9, 200000>>, TRUE>>, <<799411, <<179, 50, 236, 96, 68, 183, 179,
        93>>, -2147483646, 18, 1, <<1, 3, 2, 3, 1, 9, 200000>>, TRUE>>, <<799765, <<235, 203,
        195, 98, 146, 9, 246, 225>>, -2147483646, 16, 1, <<3, 0, 4, 0, 1, 9, 200000>>, TRUE>>,
        <<799935, <<191, 52, 108, 180, 98, 180, 122, 127>>, -2147483646, 15, 1, <<1, 4, 0, 4, 1,
        9, 200000>>, TRUE>>, <<800075, <<75, 53, 156, 27, 56, 220, 89, 92>>, 19968, 3, 1, <<7,
        4, 7, 3, 1, 9, 108>>, TRUE>>, <<800980, <<212, 56, 44, 2, 172, 117, 86, 113>>, -1, 2, 2,
        <<0, 1, 0, 0, 1, 9, 80000>>, TRUE>>, <<801282, <<2, 58, 156, 50, 120, 5, 125, 123>>,
        -2147483646, 1, 1, <<1, 3, 2, 3, 3, 9, 93934>>, TRUE>>, <<802104, <<200, 194, 195, 71,
        124, 245, 141, 179>>, -19971, 5, 2, <<1, 2, 1, 3, 3, 9, 200000>>, TRUE>>, <<802198,
        <<106, 194, 211, 242, 212, 31, 131, 167>>, -431, 2, 1, <<2, 5, 2, 6, 1, 9, 3221>>,
        TRUE>>, <<802252, <<204, 61, 44, 98, 162, 75, 177, 101>>, -19987, 25, 2, <<0, 4, 0, 5,
        1, 9, 200000>>, TRUE>>, <<802307, <<253, 193, 99, 102, 153, 200, 45, 231>>, -19991, 28,
        2, <<2, 3, 1, 3, 3, 9, 200000>>, TRUE>>, <<802308, <<252, 193, 3, 151, 72, 185, 240,
        157>>, -431, 4, 1, <<7, 6, 7, 5, 1, 9, 200000>>, TRUE>>, <<802541, <<237, 62, 220, 76,
        38, 173, 32, 15>>, -19987, 22, 2, <<1, 3, 0, 3, 3, 9, 200000>>, TRUE>>, <<803101, <<29,
        65, 28, 238, 191, 10, 116, 88>>, -2147483646, 1, 1, <<2, 3, 2, 2, 1, 9, 43554>>, TRUE>>,
        <<803150, <<78, 65, 76, 35, 169, 60, 171, 72>>, 431, 25, 2, <<7, 2, 7, 3, 3, 9,
        200000>>, TRUE>>, <<803436, <<108, 66, 204, 188, 137, 35, 139, 114>>, 431, 3, 2, <<8, 6,
        7, 6, 3, 9, 200000>>, TRUE>>, <<803659, <<75, 67, 124, 162, 139, 242, 152, 47>>, -431,
        4, 1, <<8, 5, 8, 4, 3, 9, 200000>>, TRUE>>, <<803911, <<185, 187, 131, 79, 138, 217,
        106, 184>>, -2147483646, 25, 1, <<1, 4, 0, 4, 1, 9, 200000>>, TRUE>>, <<804280, <<72,
        186, 3, 127, 139, 65, 239, 144>>, 2147483646, 9, 2, <<6, 3, 5, 3, 1, 9, 200000>>,
        TRUE>>, <<805202, <<82, 73, 188, 166, 204, 217, 105, 3>>, 0, 14, 1, <<4, 0, 3, 0, 1, 9,
        200000>>, TRUE>>, <<806367, <<223, 77, 92, 107, 54, 194, 222, 89>>, 1, 11, 1, <<4, 0, 3,
        0, 1, 9, 200000>>, TRUE>>, <<806651, <<251, 78, 140, 157, 113, 165, 61, 32>>, -431, 32,
        2, <<4, 3, 3, 3, 3, 9, 200000>>, TRUE>>, <<806851, <<61, 176, 35, 104, 79, 136, 236,
        234>>, -432, 1, 2, <<1, 0, 0, 0, 3, 9, 200000>>, TRUE>>, <<807002, <<166, 175, 19, 234,
        16, 84, 68, 249>>, -2147483646, 15, 1, <<1, 4, 1, 3, 3, 9, 200000>>, TRUE>>, <<807143,
        <<231, 80, 44, 199, 48, 229, 4, 43>>, -431, 3, 1, <<8, 2, 7, 2, 3, 9, 200000>>, TRUE>>,
        <<807222, <<54, 81, 92, 12, 74, 163, 42, 80>>, 0, 9, 2, <<6, 2, 6, 3, 3, 9, 200000>>,
        TRUE>>, <<807533, <<147, 173, 227, 92, 20, 48, 216, 132>>, 2147483646, 3, 2, <<7, 3, 6,
        3, 3, 9, 200000>>, TRUE>>, <<807711, <<31, 83, 172, 213, 240, 14, 97, 103>>, -431, 2, 1,
        <<7, 1, 7, 2, 3, 9, 200000>>, TRUE>>, <<807959, <<23, 84, 28, 199, 86, 136, 56, 3>>,
        -2147483646, 24, 1, <<1, 2, 0, 2, 1, 9, 200000>>, TRUE>>, <<808123, <<187, 84, 188, 243,
        163, 128, 174, 16>>, -19987, 18, 2, <<2, 3, 1, 3, 3, 9, 200000>>, TRUE>>, <<808176,
        <<240, 84, 188, 212, 234, 192, 79, 115>>, 19970, 4, 1, <<1, 0, 0, 0, 3, 9, 200000>>,
        TRUE>>, <<808913, <<47, 168, 179, 125, 249, 254, 178, 132>>, -2147483646, 22, 1, <<0, 0,
        0, 1, 1, 9, 200000>>, TRUE>>, <<809655, <<183, 90, 252, 153, 131, 72, 143, 91>>,
        -2147483646, 4, 1, <<7, 1, 6, 1, 1, 9, 200000>>, TRUE>>, <<809733, <<5, 91, 172, 250, 6,
        212, 63, 19>>, 432, 9, 1, <<7, 6, 6, 6, 1, 9, 90000>>, TRUE>>, <<810331, <<91, 93, 204,
        60, 239, 219, 184, 92>>, 19968, 1, 1, <<7, 3, 8, 3, 1, 9, 176>>, TRUE>>, <<810868,
        <<140, 160, 3, 246, 179, 76, 213, 185>>, -19975, 13, 2, <<6, 1, 6, 0, 1, 9, 200000>>,
        TRUE>>, <<810893, <<141, 95, 140, 10, 58, 202, 60, 76>>, -2147483646, 3, 1, <<2, 2, 2,
        3, 1, 9, 200000>>, TRUE>>, <<811107, <<157, 159, 163, 234, 186, 166, 109, 139>>,
        -2147483646, 3, 1, <<3, 6, 4, 6, 1, 9, 200000>>, TRUE>>, <<811699, <<179, 98, 60, 29,
        232, 38, 184, 4>>, -431, 12, 1, <<7, 3, 6, 3, 3, 9, 200000>>, TRUE>>, <<812341, <<53,
        101, 140, 108, 85, 128, 213, 76>>, 0, 2, 1, <<2, 6, 1, 6, 1, 9, 80000>>, TRUE>>,
        <<812369, <<175, 154, 83, 145, 10, 219, 242, 161>>, 431, 6, 2, <<7, 6, 7, 5, 1, 9,
        200000>>, TRUE>>, <<812597, <<53, 102, 76, 249, 94, 170, 184, 77>>, -431, 4, 1, <<2, 6,
        2, 5, 3, 9, 90000>>, TRUE>>, <<812685, <<141, 102, 124, 100, 134, 172, 250, 96>>,
        2147483646, 14, 2, <<2, 3, 3, 3, 3, 9, 200000>>, TRUE>>, <<813655, <<87, 106, 108, 254,
        52, 200, 43, 68>>, -19975, 14, 2, <<1, 2, 1, 3, 3, 9, 200000>>, TRUE>>, <<814266, <<186,
        108, 236, 208, 161, 231, 253, 114>>, -431, 10, 1, <<3, 6, 4, 6, 1, 9, 200000>>, TRUE>>,
        <<814579, <<13, 146, 83, 144, 175, 91, 68, 190>>, -19987, 17, 2, <<2, 2, 1, 2, 3, 9,
        200000>>, TRUE>>, <<815569, <<209, 113, 28, 1, 91, 214, 90, 76>>, 431, 4, 2, <<4, 3, 3,
        3, 1, 9, 200000>>, TRUE>>, <<815927, <<55, 115, 28, 139, 29, 129, 144, 2>>, -2147483646,
        22, 1, <<1, 1, 2, 1, 1, 9, 200000>>, TRUE>>, <<816128, <<0, 116, 220, 241, 211, 198,
        131, 11>>, -431, 3, 1, <<5, 3, 4, 3, 1, 9, 200000>>, TRUE>>, <<816136, <<8, 116, 172,
        113, 71, 17, 177, 12>>, 0, 13, 2, <<6, 2, 6, 3, 3, 9, 200000>>, TRUE>>, <<816960, <<192,
        136, 3, 219, 24, 140, 228, 174>>, -2147483646, 2, 1, <<1, 0, 0, 0, 3, 9, 200000>>,
        TRUE>>, <<817096, <<200, 119, 60, 38, 189, 89, 133, 116>>, -431, 5, 1, <<5, 0, 4, 0, 1,
        9, 200000>>, TRUE>>, <<818369, <<193, 124, 252, 188, 223, 77, 242, 126>>, -19983, 13, 2,
        <<1, 3, 0, 3, 3, 9, 200000>>, TRUE>>, <<818576, <<144, 125, 188, 196, 228, 107, 138,
        56>>, -2147483646, 9, 1, <<0, 2, 1, 2, 3, 9, 200000>>, TRUE>>, <<819384, <<184, 128, 60,
        237, 171, 130, 196, 10>>, 19987, 2, 2, <<2, 5, 2, 4, 3, 9, 200000>>, TRUE>>, <<820058,
        <<166, 124, 115, 60, 124, 132, 66, 144>>, 0, 12, 1, <<3, 0, 2, 0, 1, 9, 200000>>,
        TRUE>>, <<820367, <<143, 132, 76, 236, 128, 39, 180, 0>>, -19975, 6, 2, <<1, 1, 1, 2, 3,
        9, 200000>>, TRUE>>, <<820853, <<139, 121, 211, 189, 38, 233, 218, 195>>, -2147483646,
        18, 1, <<2, 0, 3, 0, 1, 9, 200000>>, TRUE>>, <<821017, <<25, 135, 108, 166, 138, 198,
        191, 28>>, 19970, 7, 1, <<7, 5, 7, 4, 1, 9, 90000>>, TRUE>>, <<821222, <<26, 120, 163,
        89, 112, 141, 203, 137>>, -2147483646, 3, 1, <<1, 3, 1, 2, 3, 9, 200000>>, TRUE>>,
        <<821867, <<149, 117, 35, 139, 21, 175, 41, 200>>, 431, 4, 2, <<2, 1, 2, 2, 1, 9,
        200000>>, TRUE>>, <<821894, <<134, 138, 156, 33, 201, 230, 241, 118>>, -431, 11, 1, <<3,
        6, 4, 6, 1, 9, 200000>>, TRUE>>, <<822056, <<40, 139, 220, 199, 117, 184, 219, 2>>,
        -2147483646, 3, 1, <<2, 6, 1, 6, 3, 9, 200000>>, TRUE>>, <<822189, <<173, 139, 92, 173,
        211, 74, 26, 2>>, -431, 5, 1, <<1, 0, 1, 1, 3, 9, 200000>>, TRUE>>, <<822597, <<187,
        114, 51, 86, 116, 71, 21, 189>>, 432, 7, 1, <<7, 5, 7, 4, 1, 9, 200000>>, TRUE>>,
        <<823085, <<211, 112, 243, 148, 232, 209, 136, 251>>, -431, 2, 1, <<6, 2, 6, 3, 3, 9,
        59467>>, TRUE>>, <<823125, <<85, 143, 220, 56, 220, 241, 210, 96>>, -431, 10, 1, <<7, 2,
        7, 3, 3, 9, 200000>>, TRUE>>, <<823663, <<145, 110, 179, 1, 172, 97, 233, 137>>, -1, 1,
        2, <<6, 6, 5, 6, 3, 9, 50>>, TRUE>>, <<824053, <<245, 146, 156, 124, 175, 114, 140,
        60>>, -19971, 1, 2, <<1, 3, 0, 3, 3, 9, 90000>>, TRUE>>, <<826947, <<189, 97, 131, 241,
        101, 153, 61, 209>>, -19975, 4, 2, <<1, 4, 1, 3, 3, 9, 200000>>, TRUE>>, <<827184, <<48,
        159, 156, 155, 56, 105, 62, 89>>, 0, 2, 2, <<4, 6, 5, 6, 3, 9, 90000>>, TRUE>>,
        <<827981, <<77, 162, 44, 49, 38, 226, 145, 84>>, -431, 6, 1, <<8, 4, 8, 5, 3, 9,
        200000>>, TRUE>>, <<828124, <<36, 93, 83, 36, 125, 63, 80, 213>>, -19987, 19, 2, <<1, 3,
        0, 3, 3, 9, 200000>>, TRUE>>, <<828312, <<152, 163, 252, 164, 184, 204, 21, 105>>, -431,
        1, 1, <<2, 2, 2, 3, 1, 9, 90000>>, TRUE>>, <<828477, <<61, 164, 188, 85, 206, 98, 200,
        1>>, 1, 9, 1, <<0, 0, 0, 1, 1, 9, 16553>>, TRUE>>, <<828492, <<76, 164, 252, 229, 65, 5,
        82, 108>>, -2147483646, 21, 1, <<1, 2, 1, 3, 3, 9, 200000>>, TRUE>>, <<829906, <<210,
        169, 252, 113, 16, 253, 140, 26>>, -431, 13, 1, <<5, 3, 4, 3, 1, 9, 200000>>, TRUE>>,
        <<830622, <<158, 172, 12, 222, 132, 208, 175, 60>>, -431, 3, 1, <<6, 1, 6, 0, 1, 9,
        200000>>, TRUE>>, <<830750, <<30, 173, 220, 167, 31, 7, 247, 107>>, 431, 3, 2, <<6, 3,
        7, 3, 3, 9, 200000>>, TRUE>>, <<831462, <<26, 80, 163, 150, 237, 114, 188, 156>>,
        2147483646, 5, 2, <<2, 4, 1, 4, 1, 9, 200000>>, TRUE>>, <<832593, <<175, 75, 147, 173,
        124, 49, 212, 128>>, -19987, 16, 2, <<1, 1, 1, 2, 3, 9, 200000>>, TRUE>>, <<832905,
        <<137, 181, 28, 247, 72, 30, 203, 15>>, -1, 1, 2, <<6, 6, 5, 6, 3, 9, 49>>, TRUE>>,
        <<833802, <<10, 185, 140, 249, 125, 154, 91, 76>>, 2147483646, 3, 2, <<6, 6, 6, 5, 1, 9,
        200000>>, TRUE>>, <<834106, <<198, 69, 67, 11, 16, 202, 77, 175>>, -431, 3, 1, <<4, 6,
        5, 6, 1, 9, 752>>, TRUE>>, <<834379, <<75, 187, 60, 155, 16, 135, 144, 94>>, -431, 2, 1,
        <<7, 1, 7, 2, 3, 9, 200000>>, TRUE>>, <<835002, <<186, 189, 28, 185, 8, 212, 221, 80>>,
        -431, 1, 1, <<6, 3, 5, 3, 1, 9, 90000>>, TRUE>>, <<835585, <<1, 192, 44, 109, 195, 88,
        224, 116>>, -2147483646, 3, 1, <<3, 0, 4, 0, 1, 9, 200000>>, TRUE>>, <<836556, <<204,
        195, 108, 71, 186, 250, 231, 90>>, -19973, 5, 2, <<7, 4, 7, 5, 3, 1, 200000>>, TRUE>>,
        <<837098, <<22, 58, 163, 230, 173, 254, 215, 254>>, 431, 3, 2, <<2, 4, 2, 3, 3, 9,
        90000>>, TRUE>>, <<837441, <<65, 199, 140, 138, 64, 225, 80, 0>>, -431, 2, 1, <<6, 4, 6,
        3, 3, 9, 200000>>, TRUE>>, <<838106, <<38, 54, 195, 109, 243, 26, 167, 240>>, -19987,
        16, 2, <<0, 4, 0, 5, 1, 9, 200000>>, TRUE>>, <<838128, <<16, 54, 147, 26, 79, 153, 7,
        254>>, 431, 1, 2, <<6, 2, 6, 3, 3, 9, 95485>>, TRUE>>, <<838132, <<12, 54, 99, 2, 149,
        247, 75, 139>>, -431, 8, 1, <<6, 6, 5, 6, 1, 9, 200000>>, TRUE>>, <<838913, <<255, 50,
        211, 100, 17, 49, 90, 138>>, 0, 1, 2, <<6, 2, 6, 3, 3, 9, 68640>>, TRUE>>, <<839774,
        <<94, 208, 188, 142, 122, 102, 132, 69>>, -431, 15, 1, <<5, 0, 4, 0, 1, 9, 200000>>,
        TRUE>>, <<839959, <<233, 46, 115, 164, 122, 48, 15, 197>>, 431, 16, 2, <<3, 0, 2, 0, 1,
        9, 200000>>, TRUE>>, <<842134, <<150, 217, 172, 146, 205, 102, 254, 120>>, 0, 10, 1,
        <<4, 0, 3, 0, 1, 9, 200000>>, TRUE>>, <<843902, <<130, 31, 3, 241, 239, 15, 45, 184>>,
        0, 10, 1, <<2, 0, 3, 0, 1, 9, 200000>>, TRUE>>, <<844030, <<2, 31, 115, 51, 155, 86, 57,
        173>>, -431, 7, 1, <<6, 5, 7, 5, 1, 9, 200000>>, TRUE>>, <<844094, <<194, 30, 163, 102,
        186, 248, 206, 230>>, 2147483646, 7, 2, <<2, 1, 2, 2, 1, 9, 200000>>, TRUE>>, <<844201,
        <<87, 30, 211, 100, 113, 33, 169, 133>>, 0, 11, 1, <<8, 4, 8, 5, 3, 9, 200000>>, TRUE>>,
        <<844244, <<212, 225, 188, 139, 192, 213, 38, 103>>, 432, 12, 1, <<1, 1, 1, 0, 3, 9,
        200000>>, TRUE>>, <<844687, <<143, 227, 124, 106, 118, 109, 33, 12>>, 432, 9, 1, <<4, 6,
        3, 6, 1, 9, 200000>>, TRUE>>, <<845078, <<22, 229, 140, 47, 87, 181, 233, 87>>, -19987,
        2, 2, <<1, 4, 2, 4, 3, 1, 119600>>, TRUE>>, <<845306, <<250, 229, 76, 20, 78, 28, 138,
        67>>, 431, 27, 2, <<7, 3, 7, 2, 3, 9, 200000>>, TRUE>>, <<846426, <<166, 21, 147, 29,
        153, 97, 154, 175>>, -2147483646, 16, 1, <<0, 4, 1, 4, 3, 9, 200000>>, TRUE>>, <<848138,
        <<246, 14, 83, 43, 216, 24, 81, 197>>, -431, 3, 1, <<0, 4, 1, 4, 1, 9, 200000>>, TRUE>>,
        <<848165, <<219, 14, 227, 222, 164, 30, 175, 180>>, -2147483646, 11, 1, <<0, 5, 1, 5, 1,
        9, 200000>>, TRUE>>, <<848898, <<254, 11, 211, 230, 238, 221, 6, 230>>, 431, 17, 2, <<7,
        2, 7, 3, 3, 9, 200000>>, TRUE>>, <<850585, <<103, 5, 83, 91, 0, 57, 252, 147>>, 431, 1,
        2, <<6, 6, 7, 6, 1, 9, 627>>, TRUE>>, <<850696, <<8, 251, 108, 41, 237, 119, 134, 92>>,
        431, 1, 2, <<1, 0, 1, 1, 3, 9, 2083>>, TRUE>>, <<850975, <<225, 3, 115, 198, 233, 112,
        140, 133>>, 431, 6, 2, <<1, 6, 1, 5, 1, 9, 90000>>, TRUE>>, <<851562, <<106, 254, 44,
        126, 249, 234, 13, 124>>, -2147483646, 23, 1, <<1, 3, 1, 2, 3, 9, 200000>>, TRUE>>,
        <<851753, <<41, 255, 44, 142, 30, 96, 11, 18>>, -2147483646, 3, 1, <<2, 6, 3, 6, 1, 9,
        200000>>, TRUE>>, <<851927, <<215, 255, 252, 113, 129, 241, 169, 36>>, 0, 5, 1, <<7, 5,
        8, 5, 3, 9, 200000>>, TRUE>>, <<852111, <<113, 255, 130, 115, 183, 77, 25, 241>>, 431,
        10, 2, <<6, 5, 7, 5, 1, 9, 200000>>, TRUE>>, <<852214, <<10, 255, 178, 127, 238, 101,
        207, 203>>, 431, 3, 2, <<5, 6, 4, 6, 3, 9, 200000>>, TRUE>>, <<852285, <<61, 1, 141,
        147, 0, 157, 189, 104>>, -2147483646, 13, 1, <<0, 4, 1, 4, 1, 9, 200000>>, TRUE>>,
        <<852718, <<238, 2, 125, 231, 185, 210, 115, 23>>, 0, 10, 1, <<2, 0, 3, 0, 1, 9,
        200000>>, TRUE>>, <<852958, <<34, 252, 146, 226, 114, 173, 55, 176>>, -2147483646, 19,
        1, <<0, 2, 1, 2, 3, 9, 200000>>, TRUE>>, <<853246, <<2, 251, 146, 90, 226, 27, 222,
        185>>, 0, 12, 1, <<3, 0, 2, 0, 1, 9, 200000>>, TRUE>>, <<853385, <<137, 5, 189, 84, 98,
        7, 170, 31>>, -431, 22, 1, <<6, 3, 5, 3, 3, 9, 200000>>, TRUE>>, <<853546, <<214, 249,
        242, 56, 97, 151, 94, 209>>, -19983, 1, 1, <<2, 2, 2, 3, 1, 9, 90000>>, TRUE>>,
        <<854598, <<186, 245, 130, 87, 209, 215, 12, 132>>, 431, 17, 2, <<6, 2, 6, 3, 3, 9,
        200000>>, TRUE>>, <<854881, <<159, 244, 210, 99, 254, 28, 23, 201>>, -2147483646, 3, 1,
        <<0, 4, 0, 5, 1, 9, 200000>>, TRUE>>, <<855078, <<218, 243, 130, 124, 95, 251, 130,
        209>>, -431, 1, 1, <<1, 3, 1, 2, 1, 9, 90000>>, TRUE>>, <<855136, <<160, 243, 210, 60,
        117, 35, 38, 132>>, -431, 2, 1, <<1, 6, 2, 6, 1, 9, 200000>>, TRUE>>, <<855284, <<12,
        243, 114, 8, 128, 43, 176, 151>>, -2147483646, 2, 1, <<0, 0, 0, 1, 3, 9, 200000>>,
        TRUE>>, <<855734, <<74, 241, 50, 193, 253, 79, 149, 192>>, 431, 4, 2, <<2, 1, 1, 1, 3,
        9, 200000>>, TRUE>>, <<857024, <<192, 19, 29, 115, 244, 186, 75, 1>>, -2147483646, 5, 1,
        <<2, 5, 2, 6, 3, 9, 200000>>, TRUE>>, <<857038, <<206, 19, 221, 144, 234, 62, 139, 13>>,
        -431, 1, 1, <<4, 6, 3, 6, 1, 9, 7964>>, TRUE>>, <<857481, <<119, 234, 82, 198, 234, 209,
        27, 244>>, 0, 19, 2, <<4, 3, 3, 3, 3, 9, 200000>>, TRUE>>, <<857519, <<175, 21, 13, 111,
        195, 163, 216, 90>>, 431, 2, 2, <<1, 1, 0, 1, 1, 9, 200000>>, TRUE>>, <<859298, <<162,
        28, 237, 128, 92, 122, 226, 44>>, 431, 3, 2, <<0, 0, 0, 1, 3, 9, 103>>, TRUE>>,
        <<860588, <<84, 222, 34, 128, 170, 154, 64, 187>>, -431, 1, 1, <<3, 6, 2, 6, 1, 9,
        200000>>, TRUE>>, <<860704, <<32, 34, 237, 10, 124, 63, 186, 19>>, -431, 1, 1, <<0, 2,
        1, 2, 1, 9, 200000>>, TRUE>>, <<860861, <<67, 221, 194, 185, 174, 140, 137, 229>>, 0, 9,
        1, <<7, 0, 8, 0, 3, 9, 200000>>, TRUE>>, <<860915, <<13, 221, 50, 156, 242, 209, 22,
        181>>, 19970, 3, 1, <<7, 3, 8, 3, 1, 9, 64>>, TRUE>>, <<861202, <<18, 36, 29, 137, 10,
        26, 237, 77>>, 431, 3, 2, <<5, 6, 4, 6, 3, 9, 200000>>, TRUE>>, <<861869, <<173, 38, 13,
        199, 134, 36, 13, 73>>, 1, 9, 1, <<0, 2, 0, 1, 1, 9, 90000>>, TRUE>>, <<861924, <<28,
        217, 98, 159, 127, 31, 172, 236>>, -19987, 7, 2, <<0, 2, 0, 3, 3, 9, 10637>>, TRUE>>,
        <<862383, <<175, 40, 109, 108, 12, 80, 188, 20>>, 19970, 3, 1, <<7, 3, 8, 3, 1, 9,
        90000>>, TRUE>>, <<862780, <<60, 42, 29, 143, 25, 218, 120, 88>>, 431, 15, 2, <<7, 2, 7,
        3, 3, 9, 200000>>, TRUE>>, <<863638, <<106, 210, 226, 24, 248, 181, 134, 179>>,
        -2147483646, 11, 1, <<0, 1, 0, 2, 3, 9, 200000>>, TRUE>>, <<863688, <<56, 210, 66, 1, 9,
        157, 207, 178>>, 431, 3, 2, <<3, 0, 2, 0, 3, 9, 90000>>, TRUE>>, <<863901, <<99, 209,
        162, 2, 91, 19, 246, 182>>, 431, 8, 2, <<0, 1, 0, 2, 1, 9, 200000>>, TRUE>>, <<864301,
        <<45, 48, 77, 206, 86, 125, 164, 25>>, 431, 18, 2, <<5, 0, 6, 0, 1, 9, 200000>>, TRUE>>,
        <<864439, <<73, 207, 162, 187, 231, 99, 128, 168>>, 0, 23, 2, <<4, 3, 3, 3, 3, 9,
        200000>>, TRUE>>, <<864480, <<224, 48, 221, 58, 231, 244, 154, 98>>, -431, 1, 1, <<3, 3,
        2, 3, 1, 9, 5818>>, TRUE>>, <<864565, <<53, 49, 13, 175, 121, 218, 30, 95>>, -431, 2, 1,
        <<8, 4, 8, 5, 3, 9, 200000>>, TRUE>>, <<864585, <<183, 206, 162, 153, 39, 220, 250,
        220>>, 431, 2, 2, <<0, 0, 0, 1, 1, 9, 200000>>, TRUE>>, <<865182, <<98, 204, 242, 208,
        169, 24, 31, 141>>, 2147483646, 8, 2, <<0, 5, 0, 4, 1, 9, 200000>>, TRUE>>, <<866752,
        <<192, 57, 173, 32, 87, 153, 181, 44>>, -431, 15, 1, <<0, 5, 0, 4, 1, 9, 200000>>,
        TRUE>>, <<866753, <<63, 198, 194, 103, 134, 105, 86, 154>>, -19991, 28, 2, <<2, 3, 1, 3,
        3, 9, 200000>>, TRUE>>, <<867116, <<212, 196, 66, 70, 160, 178, 151, 233>>, -2147483646,
        2, 1, <<1, 4, 1, 3, 3, 9, 200000>>, TRUE>>, <<868118, <<22, 63, 141, 3, 179, 212, 45,
        12>>, 0, 1, 1, <<2, 1, 2, 0, 1, 9, 90000>>, TRUE>>, <<868177, <<175, 192, 50, 200, 41,
        204, 201, 208>>, -2147483646, 2, 1, <<2, 1, 2, 2, 1, 9, 200000>>, TRUE>>, <<868620,
        <<244, 190, 130, 178, 238, 17, 75, 198>>, -431, 1, 1, <<2, 2, 2, 3, 1, 9, 23458>>,
        TRUE>>, <<869792, <<160, 69, 125, 168, 135, 192, 15, 37>>, -431, 2, 1, <<7, 5, 7, 6, 1,
        9, 69>>, TRUE>>, <<870713, <<57, 73, 45, 156, 110, 4, 70, 93>>, -431, 32, 2, <<4, 3, 3,
        3, 3, 9, 200000>>, TRUE>>, <<871376, <<208, 75, 205, 146, 248, 42, 136, 96>>, -431, 1,
        1, <<6, 5, 7, 5, 1, 9, 90000>>, TRUE>>, <<871789, <<109, 77, 45, 231, 51, 28, 215, 55>>,
        -431, 8, 1, <<7, 3, 6, 3, 3, 9, 200000>>, TRUE>>, <<872152, <<40, 177, 242, 181, 45, 96,
        59, 142>>, 478, 2, 2, <<2, 4, 1, 4, 3, 9, 90000>>, TRUE>>, <<872261, <<69, 79, 157, 100,
        165, 77, 10, 99>>, -431, 2, 2, <<2, 6, 2, 5, 3, 9, 200000>>, TRUE>>, <<872374, <<74,
        176, 210, 130, 206, 32, 79, 143>>, 431, 11, 2, <<7, 4, 7, 3, 3, 9, 200000>>, TRUE>>,
        <<872486, <<218, 175, 226, 38, 163, 121, 115, 208>>, -2147483646, 3, 1, <<2, 5, 2, 4, 3,
        9, 200000>>, TRUE>>, <<872930, <<226, 81, 253, 96, 19, 222, 89, 124>>, -431, 1, 1, <<0,
        6, 1, 6, 1, 9, 10024>>, TRUE>>, <<873162, <<202, 82, 157, 85, 206, 179, 219, 3>>, 0, 9,
        2, <<6, 2, 7, 2, 3, 9, 200000>>, TRUE>>, <<873797, <<69, 85, 77, 105, 230, 140, 220,
        52>>, 2147483646, 4, 2, <<3, 6, 2, 6, 3, 9, 200000>>, TRUE>>, <<873824, <<160, 170, 114,
        101, 208, 241, 215, 218>>, -2147483646, 3, 1, <<2, 3, 3, 3, 3, 9, 200000>>, TRUE>>,
        <<874217, <<233, 86, 13, 118, 46, 18, 109, 25>>, -2147483646, 3, 1, <<3, 3, 2, 3, 1, 9,
        200000>>, TRUE>>, <<874259, <<19, 87, 45, 37, 210, 116, 48, 67>>, 431, 8, 2, <<2, 3, 2,
        2, 1, 9, 200000>>, TRUE>>, <<875313, <<49, 91, 29, 231, 65, 171, 103, 39>>, -431, 9, 1,
        <<2, 1, 2, 2, 3, 9, 200000>>, TRUE>>, <<876624, <<80, 96, 253, 246, 30, 151, 25, 96>>,
        -431, 3, 1, <<1, 2, 2, 2, 1, 9, 1202>>, TRUE>>, <<876796, <<252, 96, 93, 194, 235, 159,
        143, 115>>, 0, 9, 2, <<6, 2, 6, 3, 3, 9, 200000>>, TRUE>>, <<877653, <<171, 155, 210,
        165, 131, 254, 74, 153>>, 431, 12, 2, <<4, 6, 5, 6, 1, 9, 200000>>, TRUE>>, <<877937,
        <<113, 101, 189, 61, 2, 188, 11, 51>>, -19987, 17, 2, <<2, 3, 1, 3, 3, 9, 200000>>,
        TRUE>>, <<878010, <<70, 154, 130, 231, 67, 39, 83, 171>>, 431, 1, 2, <<8, 4, 8, 5, 3, 9,
        3255>>, TRUE>>, <<878325, <<245, 102, 237, 235, 76, 3, 226, 85>>, -431, 25, 2, <<5, 3,
        4, 3, 3, 9, 200000>>, TRUE>>, <<878673, <<81, 104, 253, 71, 144, 255, 12, 44>>, 431, 14,
        2, <<6, 3, 5, 3, 1, 9, 200000>>, TRUE>>, <<878839, <<247, 104, 141, 64, 198, 119, 83,
        8>>, -431, 1, 1, <<6, 4, 7, 4, 3, 9, 69>>, TRUE>>, <<879229, <<131, 149, 98, 143, 4,
        123, 2, 160>>, -1, 1, 2, <<8, 0, 8, 1, 3, 9, 107>>, TRUE>>, <<879349, <<245, 106, 109,
        97, 229, 253, 209, 42>>, 431, 14, 2, <<3, 6, 4, 6, 1, 9, 200000>>, TRUE>>, <<879523,
        <<93, 148, 50, 146, 65, 50, 40, 229>>, 2147483646, 6, 2, <<2, 6, 2, 5, 3, 9, 200000>>,
        TRUE>>, <<879613, <<3, 148, 114, 33, 177, 172, 45, 140>>, -2147483646, 1, 1, <<1, 5, 1,
        4, 1, 9, 90000>>, TRUE>>, <<879785, <<87, 147, 178, 27, 178, 130, 72, 244>>, -431, 30,
        2, <<3, 3, 2, 3, 3, 9, 200000>>, TRUE>>, <<880240, <<112, 110, 29, 77, 175, 118, 190,
        98>>, -2147483646, 3, 1, <<0, 1, 0, 2, 3, 9, 200000>>, TRUE>>, <<880324, <<196, 110, 29,
        71, 206, 130, 102, 51>>, 431, 7, 2, <<7, 3, 7, 4, 3, 9, 200000>>, TRUE>>, <<880642,
        <<254, 143, 98, 126, 194, 198, 75, 219>>, -431, 3, 1, <<1, 4, 1, 3, 1, 9, 200000>>,
        TRUE>>, <<881197, <<45, 114, 221, 88, 223, 198, 171, 31>>, 431, 4, 2, <<2, 5, 1, 5, 1,
        9, 200000>>, TRUE>>, <<881606, <<58, 140, 18, 252, 99, 63, 240, 145>>, 431, 9, 2, <<6,
        4, 6, 3, 3, 9, 200000>>, TRUE>>, <<882514, <<174, 136, 2, 161, 152, 246, 108, 231>>,
        -431, 9, 1, <<7, 1, 6, 1, 1, 9, 200000>>, TRUE>>, <<882560, <<128, 136, 226, 181, 94,
        88, 228, 229>>, -431, 4, 1, <<5, 6, 6, 6, 1, 9, 200000>>, TRUE>>, <<882755, <<67, 120,
        109, 39, 181, 121, 61, 85>>, -431, 7, 1, <<3, 0, 2, 0, 3, 9, 200000>>, TRUE>>, <<882803,
        <<115, 120, 29, 23, 31, 110, 53, 13>>, 0, 5, 1, <<6, 0, 5, 0, 3, 9, 200000>>, TRUE>>,
        <<883282, <<82, 122, 29, 197, 251, 202, 241, 69>>, -2147483646, 2, 1, <<0, 2, 1, 2, 3,
        9, 200000>>, TRUE>>, <<883905, <<193, 124, 189, 47, 43, 52, 14, 84>>, -431, 2, 1, <<7,
        1, 8, 1, 3, 9, 200000>>, TRUE>>, <<884385, <<95, 129, 98, 224, 2, 25, 0, 170>>,
        -2147483646, 5, 1, <<6, 6, 5, 6, 1, 9, 200000>>, TRUE>>, <<884859, <<133, 127, 242, 12,
        56, 30, 179, 241>>, 0, 5, 1, <<8, 2, 8, 1, 3, 9, 200000>>, TRUE>>, <<885440, <<192, 130,
        205, 93, 196, 61, 152, 88>>, 431, 17, 2, <<6, 3, 7, 3, 3, 9, 200000>>, TRUE>>, <<885740,
        <<236, 131, 109, 86, 245, 90, 49, 94>>, 19984, 2, 1, <<1, 4, 1, 3, 1, 3, 200000>>,
        TRUE>>, <<885813, <<203, 123, 2, 73, 11, 67, 111, 166>>, -2147483646, 8, 1, <<5, 3, 4,
        3, 1, 9, 200000>>, TRUE>>, <<886262, <<246, 133, 157, 96, 38, 196, 32, 31>>, 2147483646,
        2, 2, <<1, 5, 0, 5, 1, 9, 9395>>, TRUE>>, <<886566, <<38, 135, 61, 1, 91, 7, 73, 78>>,
        431, 11, 2, <<8, 5, 8, 4, 3, 9, 200000>>, TRUE>>, <<886615, <<87, 135, 189, 145, 11,
        231, 117, 59>>, 19970, 3, 1, <<8, 4, 8, 3, 1, 9, 200000>>, TRUE>>, <<887032, <<248, 136,
        109, 182, 166, 131, 106, 55>>, 431, 3, 2, <<1, 1, 1, 2, 3, 9, 90000>>, TRUE>>, <<887230,
        <<190, 137, 221, 174, 177, 67, 107, 46>>, -2147483646, 2, 1, <<4, 3, 5, 3, 3, 9,
        200000>>, TRUE>>, <<887943, <<135, 140, 109, 19, 147, 25, 201, 1>>, -2147483645, 1, 1,
        <<5, 0, 4, 0, 1, 9, 200000>>, TRUE>>, <<888114, <<206, 114, 66, 156, 220, 31, 177,
        237>>, 432, 5, 1, <<0, 1, 0, 2, 3, 9, 200000>>, TRUE>>, <<888147, <<83, 141, 77, 129,
        120, 198, 245, 8>>, 431, 2, 2, <<6, 3, 5, 3, 1, 9, 457>>, TRUE>>, <<888343, <<23, 142,
        221, 174, 49, 173, 222, 16>>, -1, 3, 2, <<6, 5, 6, 4, 3, 9, 15>>, TRUE>>, <<888938,
        <<106, 144, 93, 252, 109, 218, 247, 43>>, 431, 4, 2, <<4, 0, 5, 0, 3, 9, 90000>>,
        TRUE>>, <<888954, <<122, 144, 93, 100, 134, 125, 233, 98>>, -19991, 29, 2, <<0, 0, 0, 1,
        1, 9, 200000>>, TRUE>>, <<889618, <<238, 108, 82, 234, 220, 3, 245, 246>>, -2147483646,
        19, 1, <<1, 3, 1, 4, 3, 9, 200000>>, TRUE>>, <<889790, <<66, 108, 242, 222, 41, 11, 99,
        229>>, 19984, 3, 1, <<1, 2, 1, 3, 1, 3, 200000>>, TRUE>>, <<889827, <<29, 108, 146, 2,
        193, 197, 160, 231>>, -2147483646, 1, 1, <<2, 4, 2, 3, 1, 9, 90000>>, TRUE>>, <<890222,
        <<146, 106, 98, 219, 184, 144, 68, 197>>, -1, 1, 2, <<1, 0, 2, 0, 1, 9, 80000>>, TRUE>>,
        <<890736, <<144, 104, 114, 207, 59, 222, 23, 189>>, -431, 3, 1, <<2, 4, 2, 3, 1, 9,
        200000>>, TRUE>>, <<891097, <<217, 152, 237, 239, 204, 207, 142, 95>>, -2147483646, 6,
        1, <<6, 1, 7, 1, 1, 9, 200000>>, TRUE>>, <<891122, <<242, 152, 61, 154, 39, 200, 69,
        36>>, 431, 1, 2, <<4, 6, 3, 6, 3, 9, 90000>>, TRUE>>, <<892759, <<169, 96, 210, 110,
        134, 251, 46, 155>>, 19968, 3, 1, <<6, 5, 7, 5, 1, 9, 200000>>, TRUE>>, <<892784, <<112,
        159, 141, 64, 44, 62, 115, 110>>, 2147483646, 3, 2, <<2, 3, 2, 2, 1, 9, 200000>>,
        TRUE>>, <<893090, <<162, 160, 205, 110, 111, 249, 246, 1>>, -431, 3, 1, <<7, 5, 7, 4, 1,
        9, 200000>>, TRUE>>, <<893224, <<216, 94, 146, 125, 249, 47, 161, 134>>, -2147483646, 2,
        1, <<1, 3, 2, 3, 3, 9, 200000>>, TRUE>>, <<893620, <<76, 93, 34, 0, 199, 79, 49, 220>>,
        -2147483646, 5, 1, <<3, 3, 2, 3, 3, 9, 200000>>, TRUE>>, <<893890, <<62, 92, 146, 247,
        191, 120, 107, 200>>, 431, 11, 2, <<8, 5, 8, 4, 3, 9, 200000>>, TRUE>>, <<894265, <<57,
        165, 189, 169, 211, 149, 38, 14>>, -431, 3, 1, <<7, 3, 6, 3, 3, 9, 200000>>, TRUE>>,
        <<896198, <<58, 83, 114, 219, 203, 168, 155, 174>>, 431, 11, 2, <<2, 4, 2, 5, 3, 9,
        620>>, TRUE>>, <<897462, <<74, 78, 146, 167, 214, 145, 25, 176>>, -431, 2, 1, <<7, 5, 7,
        6, 1, 9, 73>>, TRUE>>, <<897568, <<224, 77, 18, 28, 56, 43, 248, 216>>, 431, 25, 2, <<6,
        3, 7, 3, 3, 9, 200000>>, TRUE>>, <<897657, <<135, 77, 210, 141, 175, 51, 30, 158>>, 0,
        13, 1, <<7, 4, 6, 4, 3, 9, 200000>>, TRUE>>, <<897794, <<254, 76, 98, 10, 143, 75, 91,
        178>>, 432, 8, 1, <<2, 2, 2, 3, 3, 9, 200000>>, TRUE>>, <<897892, <<100, 179, 189, 247,
        208, 16, 124, 95>>, -19985, 17, 2, <<2, 5, 2, 6, 3, 1, 200000>>, TRUE>>, <<898206, <<98,
        75, 242, 146, 98, 2, 203, 228>>, -431, 29, 2, <<1, 1, 1, 2, 1, 9, 200000>>, TRUE>>,
        <<898806, <<10, 73, 50, 64, 85, 40, 169, 196>>, 431, 13, 2, <<6, 4, 6, 3, 3, 9,
        200000>>, TRUE>>, <<899363, <<35, 185, 157, 137, 167, 99, 199, 7>>, -431, 14, 2, <<2, 1,
        2, 2, 3, 9, 200000>>, TRUE>>, <<899797, <<213, 186, 237, 247, 36, 141, 220, 54>>,
        -19983, 12, 2, <<0, 2, 0, 3, 3, 9, 200000>>, TRUE>>, <<899932, <<164, 68, 210, 168, 65,
        207, 101, 204>>, -431, 2, 1, <<8, 6, 7, 6, 1, 9, 200000>>, TRUE>>, <<899948, <<148, 68,
        18, 165, 160, 206, 169, 152>>, 431, 16, 2, <<2, 3, 3, 3, 3, 9, 200000>>, TRUE>>,
        <<900019, <<179, 187, 45, 52, 5, 215, 208, 22>>, 1, 7, 1, <<1, 0, 1, 1, 1, 9, 200000>>,
        TRUE>>, <<902018, <<130, 195, 189, 112, 59, 219, 45, 125>>, -19973, 5, 2, <<7, 4, 8, 4,
        3, 1, 200000>>, TRUE>>, <<902047, <<159, 195, 13, 89, 111, 221, 139, 32>>, -431, 2, 1,
        <<8, 2, 7, 2, 3, 9, 131>>, TRUE>>, <<902244, <<100, 196, 29, 105, 138, 111, 219, 35>>,
        -431, 33, 0, <<1, 1, 1, 2, 1, 9, 200000>>, TRUE>>, <<903583, <<97, 54, 130, 188, 139,
        90, 9, 201>>, -19975, 2, 2, <<2, 4, 2, 3, 3, 9, 200000>>, TRUE>>, <<904082, <<146, 203,
        253, 94, 72, 163, 185, 95>>, 431, 14, 2, <<4, 3, 5, 3, 3, 9, 200000>>, TRUE>>, <<904661,
        <<43, 50, 114, 8, 72, 76, 41, 166>>, 431, 6, 2, <<2, 5, 1, 5, 1, 9, 90000>>, TRUE>>,
        <<904748, <<44, 206, 61, 188, 185, 116, 50, 21>>, 0, 4, 1, <<5, 0, 4, 0, 1, 9, 200000>>,
        TRUE>>, <<905022, <<62, 207, 173, 73, 241, 227, 129, 124>>, -2147483646, 11, 1, <<1, 2,
        1, 3, 3, 9, 200000>>, TRUE>>, <<906171, <<69, 44, 114, 46, 11, 226, 79, 251>>, 0, 11, 2,
        <<5, 3, 4, 3, 3, 9, 200000>>, TRUE>>, <<906217, <<23, 44, 130, 198, 251, 222, 78, 189>>,
        -2147483646, 3, 1, <<0, 0, 0, 1, 1, 9, 200000>>, TRUE>>, <<906847, <<95, 214, 77, 188,
        32, 153, 188, 50>>, 432, 15, 1, <<3, 6, 4, 6, 1, 9, 200000>>, TRUE>>, <<907751, <<231,
        217, 45, 222, 245, 99, 229, 90>>, 0, 21, 2, <<3, 3, 4, 3, 3, 9, 200000>>, TRUE>>,
        <<909444, <<124, 31, 178, 159, 110, 16, 249, 165>>, -431, 33, 0, <<0, 0, 1, 0, 1, 9,
        200000>>, TRUE>>, <<909553, <<15, 31, 50, 13, 104, 169, 239, 145>>, 432, 6, 1, <<1, 5,
        1, 6, 1, 9, 90000>>, TRUE>>, <<909694, <<130, 30, 178, 189, 174, 175, 131, 209>>, 431,
        1, 2, <<4, 6, 3, 6, 3, 9, 90000>>, TRUE>>, <<909807, <<17, 30, 226, 54, 171, 57, 211,
        216>>, -431, 11, 1, <<0, 0, 1, 0, 3, 9, 200000>>, TRUE>>, <<911104, <<0, 25, 2, 103,
        165, 89, 181, 155>>, 2147483646, 3, 2, <<0, 1, 0, 2, 1, 9, 200000>>, TRUE>>, <<911259,
        <<155, 231, 61, 58, 132, 207, 10, 63>>, -431, 6, 1, <<6, 3, 7, 3, 3, 9, 200000>>,
        TRUE>>, <<911393, <<223, 23, 2, 20, 36, 162, 158, 152>>, -2147483646, 2, 1, <<6, 1, 6,
        0, 1, 9, 200000>>, TRUE>>, <<911415, <<55, 232, 237, 241, 146, 114, 126, 99>>, -431, 5,
        1, <<2, 0, 1, 0, 3, 9, 200000>>, TRUE>>, <<911542, <<182, 232, 157, 220, 243, 233, 116,
        97>>, -431, 1, 1, <<7, 0, 6, 0, 1, 9, 90000>>, TRUE>>, <<914157, <<237, 242, 205, 246,
        105, 77, 187, 84>>, 19968, 5, 1, <<7, 5, 7, 4, 1, 9, 200000>>, TRUE>>, <<914733, <<45,
        245, 61, 124, 212, 75, 230, 64>>, 431, 10, 2, <<3, 6, 4, 6, 1, 9, 200000>>, TRUE>>,
        <<914899, <<211, 245, 141, 185, 143, 114, 151, 43>>, 2147483646, 4, 2, <<3, 3, 2, 3, 3,
        9, 200000>>, TRUE>>, <<915118, <<82, 9, 210, 108, 159, 15, 70, 216>>, -431, 17, 1, <<3,
        0, 2, 0, 1, 9, 200000>>, TRUE>>, <<915215, <<15, 247, 45, 48, 31, 161, 108, 59>>,
        -2147483646, 3, 1, <<1, 1, 2, 1, 1, 9, 200000>>, TRUE>>, <<915438, <<238, 247, 61, 15,
        218, 225, 119, 73>>, 1, 6, 1, <<8, 1, 7, 1, 3, 9, 200000>>, TRUE>>, <<915442, <<242,
        247, 141, 21, 53, 218, 233, 101>>, -431, 2, 1, <<7, 4, 7, 3, 1, 9, 200000>>, TRUE>>,
        <<915705, <<249, 248, 205, 7, 221, 109, 14, 71>>, -19979, 9, 2, <<0, 2, 0, 3, 3, 9,
        200000>>, TRUE>>, <<915777, <<65, 249, 93, 253, 119, 76, 105, 73>>, -19987, 26, 2, <<2,
        4, 1, 4, 3, 9, 200000>>, TRUE>>, <<915784, <<184, 6, 50, 85, 89, 46, 123, 233>>,
        -2147483646, 12, 1, <<2, 3, 3, 3, 3, 9, 200000>>, TRUE>>, <<915880, <<168, 249, 141,
        127, 230, 75, 118, 1>>, -2147483646, 23, 1, <<1, 3, 1, 2, 3, 9, 200000>>, TRUE>>,
        <<915986, <<238, 5, 178, 238, 63, 106, 63, 240>>, 431, 7, 2, <<4, 0, 3, 0, 3, 9,
        200000>>, TRUE>>, <<916294, <<70, 251, 189, 30, 108, 86, 76, 123>>, 432, 8, 1, <<1, 0,
        1, 1, 3, 9, 200000>>, TRUE>>, <<916360, <<136, 251, 205, 38, 141, 14, 60, 19>>, 431, 23,
        2, <<7, 1, 7, 2, 3, 9, 200000>>, TRUE>>, <<916670, <<190, 252, 125, 185, 61, 211, 115,
        41>>, 19968, 2, 1, <<7, 0, 7, 1, 3, 9, 6336>>, TRUE>>, <<916720, <<240, 252, 141, 156,
        97, 142, 236, 121>>, -19975, 21, 2, <<3, 0, 4, 0, 1, 9, 200000>>, TRUE>>, <<916905,
        <<87, 2, 114, 43, 7, 134, 38, 157>>, -19975, 6, 2, <<2, 3, 1, 3, 3, 9, 200000>>, TRUE>>,
        <<916912, <<80, 2, 210, 229, 203, 91, 67, 196>>, -431, 2, 1, <<7, 4, 7, 3, 1, 9,
        200000>>, TRUE>>, <<917975, <<41, 254, 49, 219, 17, 87, 178, 216>>, -1, 3, 2, <<8, 1, 8,
        0, 3, 9, 200000>>, TRUE>>, <<918001, <<15, 254, 17, 187, 179, 139, 78, 228>>, -431, 2,
        1, <<7, 4, 7, 3, 3, 9, 200000>>, TRUE>>, <<918994, <<210, 5, 62, 249, 191, 149, 91,
        114>>, 431, 3, 2, <<1, 0, 2, 0, 3, 9, 61>>, TRUE>>, <<919509, <<213, 7, 222, 26, 164,
        143, 126, 64>>, -431, 3, 1, <<2, 4, 2, 3, 3, 9, 97692>>, TRUE>>, <<919869, <<195, 246,
        17, 188, 90, 79, 126, 175>>, -2147483646, 2, 1, <<4, 6, 3, 6, 1, 9, 200000>>, TRUE>>,
        <<919973, <<165, 9, 110, 32, 219, 101, 249, 5>>, -431, 2, 1, <<1, 2, 1, 3, 3, 9,
        90000>>, TRUE>>, <<920739, <<93, 243, 81, 7, 14, 47, 74, 235>>, -2147483646, 20, 1, <<1,
        0, 0, 0, 1, 9, 200000>>, TRUE>>, <<921180, <<164, 241, 65, 118, 119, 30, 116, 183>>,
        -19989, 20, 2, <<4, 3, 3, 3, 3, 1, 200000>>, TRUE>>, <<921560, <<216, 15, 238, 98, 233,
        167, 234, 64>>, 431, 9, 2, <<8, 4, 8, 5, 3, 9, 200000>>, TRUE>>, <<921672, <<184, 239,
        225, 44, 54, 94, 77, 188>>, 431, 17, 2, <<8, 2, 7, 2, 3, 9, 200000>>, TRUE>>, <<921996,
        <<116, 238, 97, 156, 55, 8, 95, 243>>, -431, 17, 2, <<0, 1, 1, 1, 1, 9, 200000>>,
        TRUE>>, <<923035, <<101, 234, 65, 88, 50, 66, 84, 177>>, 432, 8, 1, <<2, 6, 1, 6, 1, 9,
        90000>>, TRUE>>, <<923772, <<124, 24, 254, 205, 228, 45, 111, 28>>, 431, 19, 2, <<7, 3,
        6, 3, 3, 9, 200000>>, TRUE>>, <<923911, <<249, 230, 161, 71, 199, 185, 178, 207>>,
        -19975, 4, 2, <<1, 3, 0, 3, 3, 9, 200000>>, TRUE>>, <<924325, <<165, 26, 62, 102, 185,
        182, 252, 94>>, -2147483646, 7, 1, <<5, 6, 4, 6, 1, 9, 200000>>, TRUE>>, <<924739, <<67,
        28, 78, 159, 11, 9, 249, 10>>, 432, 9, 1, <<6, 6, 7, 6, 1, 9, 90000>>, TRUE>>, <<925021,
        <<93, 29, 158, 164, 200, 153, 197, 67>>, -432, 1, 2, <<0, 0, 0, 1, 3, 9, 200000>>,
        TRUE>>, <<925287, <<103, 30, 14, 194, 46, 214, 51, 110>>, -2147483646, 2, 1, <<2, 4, 2,
        3, 1, 9, 200000>>, TRUE>>, <<925825, <<129, 32, 222, 126, 179, 41, 103, 88>>,
        2147483646, 3, 2, <<7, 3, 6, 3, 3, 9, 200000>>, TRUE>>, <<926253, <<45, 34, 94, 125,
        124, 252, 62, 85>>, -19991, 10, 2, <<1, 5, 1, 4, 3, 9, 200000>>, TRUE>>, <<926298,
        <<166, 221, 33, 27, 78, 21, 255, 224>>, 0, 3, 2, <<7, 4, 7, 3, 3, 9, 200000>>, TRUE>>,
        <<928303, <<209, 213, 33, 197, 165, 142, 41, 132>>, -19975, 6, 2, <<2, 3, 1, 3, 3, 9,
        200000>>, TRUE>>, <<928369, <<143, 213, 97, 10, 191, 200, 176, 157>>, -19991, 26, 2,
        <<1, 3, 0, 3, 3, 9, 200000>>, TRUE>>, <<928486, <<230, 42, 30, 31, 228, 21, 113, 28>>,
        431, 5, 2, <<8, 4, 8, 5, 3, 9, 200000>>, TRUE>>, <<929227, <<203, 45, 238, 202, 81, 177,
        249, 29>>, -19987, 22, 2, <<0, 4, 0, 3, 3, 9, 200000>>, TRUE>>, <<930799, <<239, 51, 14,
        196, 116, 218, 112, 78>>, -431, 3, 1, <<5, 0, 4, 0, 3, 9, 330>>, TRUE>>, <<930931,
        <<141, 203, 193, 65, 37, 45, 188, 222>>, 0, 1, 2, <<1, 0, 2, 0, 1, 9, 5177>>, TRUE>>,
        <<931861, <<235, 199, 49, 104, 114, 194, 247, 132>>, 1, 9, 1, <<4, 0, 5, 0, 1, 9,
        200000>>, TRUE>>, <<932103, <<249, 198, 161, 157, 58, 85, 68, 237>>, -19975, 14, 2, <<1,
        2, 1, 3, 3, 9, 200000>>, TRUE>>, <<932400, <<208, 197, 241, 249, 16, 238, 149, 240>>,
        432, 6, 1, <<1, 1, 1, 2, 3, 9, 200000>>, TRUE>>, <<932720, <<112, 59, 174, 128, 186, 59,
        58, 77>>, -2147483646, 2, 1, <<1, 1, 1, 2, 3, 9, 200000>>, TRUE>>, <<933169, <<207, 194,
        113, 47, 226, 208, 195, 175>>, -19987, 22, 2, <<0, 2, 0, 3, 3, 9, 200000>>, TRUE>>,
        <<935030, <<138, 187, 1, 241, 29, 26, 177, 218>>, 431, 7, 2, <<2, 6, 2, 5, 3, 9,
        200000>>, TRUE>>, <<935696, <<16, 71, 30, 153, 73, 107, 251, 54>>, -431, 5, 1, <<6, 6,
        5, 6, 1, 9, 200000>>, TRUE>>, <<936136, <<200, 72, 254, 46, 41, 58, 154, 59>>, 431, 15,
        2, <<8, 2, 7, 2, 3, 9, 200000>>, TRUE>>, <<937100, <<116, 179, 145, 251, 235, 232, 239,
        209>>, 431, 9, 2, <<6, 3, 7, 3, 3, 9, 200000>>, TRUE>>, <<937237, <<235, 178, 225, 246,
        1, 54, 146, 196>>, 431, 28, 2, <<0, 2, 0, 1, 1, 9, 200000>>, TRUE>>, <<937274, <<58, 77,
        30, 198, 179, 221, 2, 90>>, -431, 11, 1, <<2, 5, 1, 5, 1, 9, 200000>>, TRUE>>, <<937762,
        <<222, 176, 17, 64, 5, 82, 14, 185>>, -19987, 25, 2, <<1, 3, 1, 2, 1, 9, 200000>>,
        TRUE>>, <<937848, <<120, 79, 78, 170, 125, 54, 188, 3>>, 2147483646, 1, 2, <<8, 5, 7, 5,
        1, 9, 262>>, TRUE>>, <<938071, <<169, 175, 17, 223, 3, 113, 169, 149>>, -431, 9, 1, <<1,
        0, 2, 0, 3, 9, 964>>, TRUE>>, <<941622, <<54, 94, 78, 137, 188, 58, 225, 8>>, -431, 21,
        1, <<1, 3, 2, 3, 1, 9, 200000>>, TRUE>>, <<943071, <<33, 156, 129, 50, 137, 213, 49,
        222>>, -19983, 11, 2, <<1, 2, 1, 3, 3, 9, 200000>>, TRUE>>, <<944132, <<4, 104, 238,
        187, 190, 111, 153, 6>>, -383, 3, 0, <<2, 3, 3, 3, 1, 9, 0>>, TRUE>>, <<944533, <<149,
        105, 158, 95, 232, 11, 136, 76>>, -19991, 26, 2, <<1, 3, 0, 3, 3, 9, 200000>>, TRUE>>,
        <<944638, <<254, 105, 206, 232, 66, 9, 196, 92>>, -431, 3, 1, <<3, 3, 2, 3, 1, 9,
        200000>>, TRUE>>, <<944644, <<252, 149, 1, 5, 37, 79, 10, 227>>, -431, 5, 1, <<1, 4, 1,
        5, 1, 9, 200000>>, TRUE>>, <<945361, <<209, 108, 126, 10, 128, 168, 13, 7>>,
        -2147483646, 4, 1, <<8, 0, 7, 0, 1, 9, 200000>>, TRUE>>, <<945898, <<22, 145, 145, 200,
        64, 44, 129, 136>>, -431, 9, 1, <<6, 0, 5, 0, 1, 9, 200000>>, TRUE>>, <<946687, <<1,
        142, 17, 90, 86, 37, 108, 180>>, -2147483646, 1, 1, <<1, 5, 1, 4, 1, 9, 90000>>, TRUE>>,
        <<947800, <<168, 137, 97, 69, 96, 192, 44, 181>>, 431, 9, 2, <<8, 4, 8, 5, 3, 9,
        200000>>, TRUE>>, <<948272, <<208, 135, 209, 122, 250, 27, 27, 129>>, 1, 10, 1, <<6, 5,
        6, 4, 3, 9, 200000>>, TRUE>>, <<948550, <<186, 134, 225, 242, 69, 100, 54, 132>>, -431,
        14, 1, <<6, 6, 5, 6, 1, 9, 200000>>, TRUE>>, <<948818, <<82, 122, 158, 141, 249, 30, 88,
        88>>, -431, 3, 1, <<1, 2, 2, 2, 1, 9, 90000>>, TRUE>>, <<948858, <<134, 133, 209, 160,
        251, 231, 131, 240>>, 431, 5, 2, <<7, 1, 7, 2, 3, 9, 200000>>, TRUE>>, <<948954, <<218,
        122, 94, 217, 21, 5, 55, 120>>, 431, 9, 2, <<8, 6, 7, 6, 3, 9, 200000>>, TRUE>>,
        <<949525, <<235, 130, 209, 158, 97, 144, 222, 179>>, -2147483646, 2, 1, <<6, 4, 6, 3, 1,
        9, 200000>>, TRUE>>, <<949922, <<162, 126, 174, 141, 159, 115, 100, 112>>, -2147483646,
        11, 1, <<2, 3, 1, 3, 3, 9, 200000>>, TRUE>>, <<950278, <<250, 127, 145, 134, 25, 42,
        187, 178>>, -431, 1, 1, <<1, 4, 1, 5, 1, 9, 21990>>, TRUE>>, <<950803, <<19, 130, 30,
        114, 97, 185, 22, 49>>, -2147483646, 18, 1, <<1, 5, 1, 6, 1, 9, 200000>>, TRUE>>,
        <<951056, <<240, 124, 113, 237, 116, 251, 235, 236>>, -431, 11, 1, <<7, 0, 6, 0, 1, 9,
        200000>>, TRUE>>, <<951305, <<9, 132, 238, 68, 178, 39, 7, 112>>, 19987, 2, 2, <<1, 4,
        1, 5, 1, 9, 200000>>, TRUE>>, <<951429, <<133, 132, 238, 68, 96, 33, 252, 62>>,
        -2147483646, 4, 1, <<6, 2, 7, 2, 1, 9, 200000>>, TRUE>>, <<953045, <<43, 117, 193, 142,
        155, 98, 135, 195>>, -19987, 22, 2, <<1, 3, 0, 3, 3, 9, 200000>>, TRUE>>, <<953324,
        <<20, 116, 33, 14, 168, 21, 120, 172>>, -19975, 15, 2, <<6, 0, 5, 0, 1, 9, 200000>>,
        TRUE>>, <<953675, <<75, 141, 14, 251, 210, 172, 240, 25>>, -2147483646, 3, 1, <<4, 0, 3,
        0, 1, 9, 200000>>, TRUE>>, <<953932, <<180, 113, 17, 195, 212, 216, 240, 156>>, -19979,
        2, 2, <<6, 0, 5, 0, 3, 1, 119600>>, TRUE>>, <<955169, <<223, 108, 177, 94, 17, 175, 160,
        241>>, 432, 15, 1, <<4, 6, 3, 6, 1, 9, 200000>>, TRUE>>, <<955481, <<167, 107, 113, 204,
        110, 118, 85, 203>>, -2147483646, 10, 1, <<1, 2, 2, 2, 1, 9, 200000>>, TRUE>>, <<955637,
        <<11, 107, 209, 248, 155, 126, 195, 216>>, -19983, 2, 2, <<0, 1, 0, 2, 3, 9, 12198>>,
        TRUE>>, <<956363, <<203, 151, 110, 61, 216, 132, 39, 75>>, -19983, 21, 2, <<1, 4, 0, 4,
        3, 9, 200000>>, TRUE>>, <<956549, <<123, 103, 113, 15, 22, 80, 84, 179>>, -19987, 22, 2,
        <<0, 4, 0, 3, 3, 9, 200000>>, TRUE>>, <<957049, <<135, 101, 145, 119, 223, 151, 242,
        201>>, 0, 9, 1, <<6, 2, 6, 3, 3, 9, 200000>>, TRUE>>, <<957259, <<181, 100, 193, 241,
        62, 42, 82, 219>>, 432, 9, 1, <<7, 6, 7, 5, 1, 9, 200000>>, TRUE>>, <<957304, <<120,
        155, 94, 52, 28, 231, 117, 55>>, 431, 3, 2, <<6, 3, 7, 3, 3, 9, 200000>>, TRUE>>,
        <<957655, <<41, 99, 81, 105, 211, 99, 194, 141>>, -431, 26, 2, <<2, 2, 1, 2, 3, 9,
        200000>>, TRUE>>, <<959881, <<119, 90, 81, 164, 184, 247, 181, 150>>, -478, 2, 2, <<7,
        3, 6, 3, 3, 9, 200000>>, TRUE>>, <<960496, <<240, 167, 222, 61, 114, 118, 14, 57>>,
        -19983, 1, 1, <<0, 2, 0, 1, 1, 9, 90000>>, TRUE>>, <<961037, <<13, 170, 142, 167, 98,
        121, 152, 121>>, 432, 5, 1, <<1, 2, 0, 2, 1, 9, 200000>>, TRUE>>, <<961185, <<161, 170,
        46, 147, 151, 113, 14, 106>>, -478, 2, 2, <<2, 5, 2, 4, 3, 9, 639>>, TRUE>>, <<961321,
        <<215, 84, 145, 7, 105, 55, 158, 192>>, -2147483646, 12, 1, <<0, 2, 0, 1, 1, 9,
        200000>>, TRUE>>, <<962347, <<43, 175, 158, 35, 189, 148, 211, 65>>, 431, 6, 2, <<2, 0,
        3, 0, 1, 9, 200000>>, TRUE>>, <<962414, <<146, 80, 33, 232, 39, 140, 55, 157>>,
        2147483646, 5, 2, <<2, 0, 3, 0, 1, 9, 200000>>, TRUE>>, <<962706, <<146, 176, 78, 20,
        125, 174, 135, 54>>, -2147483646, 1, 1, <<2, 2, 2, 3, 3, 9, 32987>>, TRUE>>, <<963136,
        <<192, 77, 209, 9, 225, 47, 92, 178>>, 431, 1, 2, <<8, 4, 8, 5, 3, 9, 90000>>, TRUE>>,
        <<963388, <<196, 76, 177, 72, 131, 23, 142, 153>>, -431, 1, 1, <<6, 0, 5, 0, 1, 9,
        200000>>, TRUE>>, <<963903, <<193, 74, 225, 220, 22, 232, 99, 239>>, -2147483646, 3, 1,
        <<2, 2, 1, 2, 1, 9, 200000>>, TRUE>>, <<964419, <<67, 183, 174, 150, 48, 243, 186, 91>>,
        431, 6, 2, <<6, 5, 7, 5, 1, 9, 200000>>, TRUE>>, <<964470, <<138, 72, 81, 108, 254, 163,
        142, 195>>, -431, 1, 1, <<8, 5, 8, 4, 1, 9, 18>>, TRUE>>, <<964657, <<49, 184, 254, 159,
        55, 28, 224, 11>>, -431, 22, 2, <<2, 2, 1, 2, 3, 9, 200000>>, TRUE>>, <<965213, <<163,
        69, 17, 47, 190, 40, 202, 194>>, -2147483646, 3, 1, <<1, 4, 1, 3, 1, 9, 200000>>,
        TRUE>>, <<965428, <<52, 187, 254, 79, 84, 3, 24, 44>>, -19987, 25, 2, <<1, 3, 1, 4, 1,
        9, 200000>>, TRUE>>, <<966681, <<231, 63, 241, 6, 173, 57, 141, 157>>, 2147483646, 8, 2,
        <<2, 5, 2, 6, 3, 9, 200000>>, TRUE>>, <<968214, <<234, 57, 65, 26, 157, 203, 97, 136>>,
        -431, 17, 1, <<4, 0, 3, 0, 1, 9, 200000>>, TRUE>>, <<968381, <<189, 198, 174, 143, 219,
        40, 107, 92>>, 2147483646, 7, 2, <<1, 1, 1, 0, 3, 9, 200000>>, TRUE>>, <<970003, <<19,
        205, 78, 146, 107, 4, 82, 120>>, -19975, 4, 2, <<1, 4, 1, 3, 3, 9, 200000>>, TRUE>>,
        <<970534, <<38, 207, 238, 51, 91, 137, 132, 109>>, 431, 2, 2, <<2, 4, 2, 3, 3, 9,
        200000>>, TRUE>>, <<971021, <<243, 46, 145, 174, 232, 79, 114, 128>>, -2147483646, 13,
        1, <<0, 6, 1, 6, 1, 9, 200000>>, TRUE>>, <<971604, <<172, 44, 193, 230, 218, 94, 216,
        187>>, 19968, 6, 1, <<3, 0, 4, 0, 3, 9, 200000>>, TRUE>>, <<971887, <<111, 212, 222, 84,
        60, 198, 77, 27>>, 431, 7, 2, <<8, 6, 7, 6, 1, 9, 200000>>, TRUE>>, <<972273, <<241,
        213, 30, 77, 56, 20, 152, 77>>, -2147483646, 2, 1, <<2, 1, 2, 2, 1, 9, 200000>>, TRUE>>,
        <<972622, <<78, 215, 78, 205, 42, 102, 244, 112>>, -431, 1, 1, <<6, 1, 6, 0, 1, 9,
        1663>>, TRUE>>, <<973016, <<216, 216, 30, 83, 67, 137, 245, 4>>, -19971, 2, 2, <<7, 6,
        7, 5, 1, 9, 200000>>, TRUE>>, <<973213, <<157, 217, 110, 34, 136, 84, 202, 24>>, -1, 4,
        2, <<6, 2, 7, 2, 3, 9, 200000>>, TRUE>>, <<973829, <<251, 35, 17, 91, 210, 108, 189,
        201>>, 0, 4, 1, <<7, 2, 8, 2, 3, 9, 200000>>, TRUE>>, <<973844, <<236, 35, 129, 8, 120,
        239, 153, 244>>, -19979, 11, 2, <<7, 3, 7, 4, 3, 1, 200000>>, TRUE>>, <<973935, <<111,
        220, 78, 116, 49, 127, 1, 11>>, 19968, 5, 1, <<7, 5, 7, 4, 1, 9, 200000>>, TRUE>>,
        <<974137, <<199, 34, 65, 132, 98, 67, 114, 128>>, 432, 11, 1, <<3, 6, 4, 6, 1, 9,
        90000>>, TRUE>>, <<974156, <<76, 221, 222, 113, 210, 58, 54, 73>>, 431, 23, 2, <<7, 3,
        6, 3, 3, 9, 200000>>, TRUE>>, <<974392, <<56, 222, 46, 211, 254, 250, 23, 112>>, 0, 15,
        2, <<6, 1, 7, 1, 3, 9, 200000>>, TRUE>>, <<974829, <<237, 223, 254, 70, 96, 212, 147,
        77>>, 431, 10, 2, <<0, 0, 0, 1, 1, 9, 200000>>, TRUE>>, <<975120, <<240, 30, 65, 41,
        252, 74, 200, 254>>, -431, 1, 1, <<1, 4, 1, 3, 1, 9, 1102>>, TRUE>>, <<977313, <<95, 22,
        225, 193, 230, 22, 179, 207>>, 431, 26, 2, <<1, 0, 2, 0, 1, 9, 200000>>, TRUE>>,
        <<977843, <<179, 235, 46, 10, 214, 71, 66, 28>>, 432, 9, 1, <<7, 6, 7, 5, 1, 9,
        200000>>, TRUE>>, <<978056, <<136, 236, 222, 189, 112, 79, 15, 76>>, 2147483646, 5, 2,
        <<2, 2, 2, 3, 1, 9, 200000>>, TRUE>>, <<978609, <<79, 17, 209, 105, 232, 231, 234,
        203>>, 432, 13, 1, <<5, 6, 4, 6, 1, 9, 200000>>, TRUE>>, <<978978, <<222, 15, 177, 38,
        46, 140, 130, 201>>, 432, 8, 1, <<2, 1, 2, 2, 3, 9, 200000>>, TRUE>>, <<979442, <<242,
        241, 126, 149, 213, 19, 12, 86>>, 431, 8, 2, <<2, 0, 3, 0, 3, 9, 476>>, TRUE>>,
        <<979634, <<78, 13, 1, 155, 140, 56, 149, 216>>, -431, 1, 1, <<7, 5, 7, 4, 1, 9,
        90000>>, TRUE>>, <<980266, <<214, 10, 97, 18, 216, 73, 87, 138>>, -431, 1, 1, <<4, 6, 3,
        6, 1, 9, 90000>>, TRUE>>, <<980699, <<219, 246, 30, 137, 65, 43, 91, 62>>, -2147483646,
        2, 1, <<2, 0, 3, 0, 1, 9, 200000>>, TRUE>>, <<981083, <<91, 248, 126, 51, 70, 215, 63,
        106>>, 431, 20, 2, <<2, 4, 2, 3, 1, 9, 200000>>, TRUE>>, <<981175, <<183, 248, 190, 8,
        95, 126, 92, 126>>, 431, 1, 2, <<1, 0, 0, 0, 1, 9, 200000>>, TRUE>>, <<981570, <<190, 5,
        113, 175, 10, 59, 252, 237>>, 0, 2, 2, <<8, 0, 8, 1, 3, 9, 90000>>, TRUE>>, <<981771,
        <<245, 4, 81, 176, 132, 171, 177, 203>>, 431, 10, 2, <<1, 1, 0, 1, 1, 9, 200000>>,
        TRUE>>, <<982592, <<64, 254, 142, 60, 140, 44, 99, 24>>, 431, 3, 2, <<1, 1, 0, 1, 3, 9,
        90000>>, TRUE>>, <<982605, <<77, 254, 14, 109, 161, 54, 64, 47>>, -19983, 14, 2, <<0, 1,
        0, 2, 3, 9, 200000>>, TRUE>>, <<984619, <<43, 6, 47, 201, 99, 153, 234, 8>>,
        -2147483646, 18, 1, <<1, 5, 1, 6, 1, 9, 200000>>, TRUE>>, <<984730, <<154, 6, 191, 115,
        221, 120, 241, 63>>, 0, 10, 1, <<2, 0, 3, 0, 1, 9, 200000>>, TRUE>>, <<985355, <<245,
        246, 208, 44, 111, 52, 39, 137>>, -1, 1, 2, <<6, 4, 6, 3, 3, 9, 15608>>, TRUE>>,
        <<986066, <<46, 244, 32, 109, 108, 112, 16, 151>>, -431, 1, 1, <<1, 4, 1, 5, 1, 9,
        90000>>, TRUE>>, <<986504, <<120, 242, 48, 225, 149, 47, 144, 211>>, 431, 7, 2, <<7, 4,
        7, 3, 3, 9, 200000>>, TRUE>>, <<986789, <<165, 14, 239, 5, 219, 139, 4, 91>>, 0, 2, 2,
        <<2, 4, 2, 3, 3, 9, 200000>>, TRUE>>, <<986861, <<19, 241, 240, 53, 153, 66, 123, 250>>,
        -19983, 12, 2, <<0, 2, 0, 3, 3, 9, 200000>>, TRUE>>, <<986893, <<13, 15, 143, 187, 54,
        41, 192, 20>>, -1, 1, 2, <<4, 6, 3, 6, 3, 9, 9>>, TRUE>>, <<988746, <<182, 233, 192,
        157, 40, 169, 36, 142>>, -431, 23, 2, <<2, 1, 2, 0, 1, 9, 200000>>, TRUE>>, <<989062,
        <<122, 232, 64, 45, 41, 255, 54, 193>>, 431, 17, 2, <<8, 2, 7, 2, 3, 9, 200000>>,
        TRUE>>, <<989224, <<40, 24, 143, 115, 106, 204, 31, 54>>, 2147483646, 2, 2, <<2, 4, 2,
        3, 1, 9, 200000>>, TRUE>>, <<989260, <<76, 24, 255, 51, 76, 88, 107, 89>>, 431, 1, 2,
        <<7, 6, 6, 6, 3, 9, 90000>>, TRUE>>, <<989784, <<168, 229, 48, 171, 27, 239, 215, 133>>,
        0, 10, 1, <<2, 0, 3, 0, 1, 9, 200000>>, TRUE>>, <<989996, <<44, 27, 31, 209, 69, 41,
        212, 63>>, 431, 1, 2, <<8, 4, 8, 5, 3, 9, 80000>>, TRUE>>, <<990080, <<128, 27, 191,
        229, 176, 33, 66, 44>>, -431, 5, 1, <<1, 2, 2, 2, 1, 9, 200000>>, TRUE>>, <<990755,
        <<221, 225, 208, 195, 214, 93, 11, 222>>, -431, 9, 1, <<2, 0, 1, 0, 3, 9, 200000>>,
        TRUE>>, <<992852, <<84, 38, 159, 151, 27, 96, 240, 83>>, -431, 10, 1, <<5, 6, 6, 6, 1,
        9, 200000>>, TRUE>>, <<992871, <<153, 217, 176, 90, 177, 208, 65, 212>>, 431, 20, 2,
        <<4, 0, 3, 0, 1, 9, 200000>>, TRUE>>, <<993562, <<26, 41, 223, 70, 96, 5, 128, 79>>,
        431, 5, 2, <<8, 4, 8, 5, 3, 9, 200000>>, TRUE>>, <<994314, <<246, 211, 192, 103, 229,
        225, 90, 242>>, -431, 8, 1, <<5, 6, 4, 6, 1, 9, 200000>>, TRUE>>, <<996069, <<229, 50,
        79, 19, 227, 123, 8, 122>>, -2147483646, 3, 1, <<2, 2, 2, 3, 1, 9, 200000>>, TRUE>>,
        <<996380, <<28, 52, 47, 20, 16, 221, 109, 71>>, -431, 4, 1, <<8, 6, 7, 6, 1, 9,
        200000>>, TRUE>>, <<996659, <<51, 53, 159, 2, 240, 238, 75, 36>>, -2147483646, 1, 1,
        <<0, 0, 0, 1, 1, 9, 2841>>, TRUE>>, <<996672, <<64, 53, 31, 144, 246, 87, 93, 16>>,
        2147483646, 10, 2, <<1, 5, 0, 5, 1, 9, 200000>>, TRUE>>, <<997640, <<8, 57, 95, 94, 97,
        208, 22, 33>>, 431, 3, 2, <<0, 1, 0, 2, 3, 9, 200000>>, TRUE>>, <<997845, <<213, 57, 15,
        109, 147, 34, 71, 9>>, -431, 2, 1, <<6, 4, 6, 3, 3, 9, 200000>>, TRUE>>, <<998476,
        <<180, 195, 0, 63, 126, 61, 98, 179>>, 0, 3, 1, <<1, 0, 2, 0, 1, 9, 200000>>, TRUE>>,
        <<998497, <<159, 195, 112, 72, 84, 244, 185, 168>>, -431, 3, 1, <<6, 3, 7, 3, 3, 9,
        200000>>, TRUE>>, <<998572, <<84, 195, 80, 197, 168, 39, 73, 223>>, 431, 1, 2, <<7, 6,
        6, 6, 3, 9, 90000>>, TRUE>>, <<998719, <<63, 61, 47, 49, 254, 33, 22, 21>>, -431, 18, 1,
        <<6, 3, 7, 3, 3, 9, 200000>>, TRUE>>, <<998744, <<88, 61, 239, 160, 105, 57, 240, 83>>,
        431, 15, 2, <<7, 4, 7, 3, 3, 9, 200000>>, TRUE>>, <<998792, <<120, 194, 192, 108, 12,
        140, 204, 226>>, 431, 17, 2, <<4, 3, 5, 3, 3, 9, 200000>>, TRUE>>, <<999736, <<200, 190,
        128, 50, 155, 22, 238, 187>>, -431, 9, 1, <<8, 0, 7, 0, 1, 9, 200000>>, TRUE>>,
        <<1000207, <<15, 67, 111, 240, 91, 146, 98, 52>>, 1, 5, 1, <<6, 0, 5, 0, 1, 9, 200000>>,
        TRUE>>, <<1000613, <<165, 68, 47, 80, 13, 82, 34, 88>>, -431, 9, 2, <<2, 1, 2, 2, 3, 9,
        200000>>, TRUE>>, <<1000818, <<142, 186, 128, 197, 148, 63, 9, 226>>, 431, 13, 2, <<2,
        5, 2, 6, 3, 9, 200000>>, TRUE>>, <<1000890, <<70, 186, 240, 107, 30, 58, 77, 215>>,
        -431, 17, 2, <<1, 5, 1, 4, 1, 9, 200000>>, TRUE>>, <<1000956, <<4, 186, 160, 228, 148,
        236, 149, 202>>, -19985, 4, 2, <<6, 3, 5, 3, 3, 1, 200000>>, TRUE>>, <<1001811, <<173,
        182, 48, 0, 165, 19, 200, 149>>, -2147483646, 1, 1, <<6, 0, 5, 0, 1, 9, 1003>>, TRUE>>,
        <<1002120, <<120, 181, 96, 242, 86, 243, 107, 158>>, 2147483646, 5, 2, <<1, 1, 1, 2, 1,
        9, 200000>>, TRUE>>, <<1002181, <<59, 181, 16, 74, 175, 242, 195, 137>>, -431, 7, 1,
        <<1, 1, 1, 2, 3, 9, 200000>>, TRUE>>, <<1002213, <<229, 74, 79, 188, 215, 108, 69, 19>>,
        -431, 2, 1, <<6, 2, 6, 3, 3, 9, 200000>>, TRUE>>, <<1002292, <<52, 75, 63, 119, 173, 42,
        107, 104>>, 431, 9, 2, <<8, 2, 7, 2, 3, 9, 200000>>, TRUE>>, <<1002694, <<58, 179, 64,
        204, 106, 201, 37, 246>>, 19970, 4, 1, <<6, 3, 7, 3, 3, 9, 200000>>, TRUE>>, <<1002878,
        <<126, 77, 47, 151, 228, 225, 220, 37>>, 432, 18, 1, <<2, 3, 3, 3, 3, 9, 200000>>,
        TRUE>>, <<1003574, <<202, 175, 48, 111, 190, 131, 132, 170>>, -19983, 11, 2, <<0, 0, 1,
        0, 1, 9, 200000>>, TRUE>>, <<1003672, <<152, 80, 111, 142, 1, 18, 28, 50>>, -431, 3, 1,
        <<4, 6, 5, 6, 1, 9, 90000>>, TRUE>>, <<1004262, <<26, 173, 144, 14, 195, 64, 237, 251>>,
        431, 3, 2, <<8, 5, 8, 4, 3, 9, 200000>>, TRUE>>, <<1006816, <<224, 92, 47, 232, 65, 169,
        9, 61>>, -19971, 2, 2, <<7, 6, 8, 6, 1, 9, 0>>, TRUE>>, <<1007402, <<42, 95, 127, 35,
        174, 132, 112, 110>>, 431, 3, 2, <<3, 0, 2, 0, 3, 9, 90000>>, TRUE>>, <<1007470, <<110,
        95, 143, 185, 195, 222, 126, 78>>, 431, 2, 2, <<1, 6, 2, 6, 3, 9, 90000>>, TRUE>>,
        <<1007512, <<104, 160, 176, 236, 168, 26, 129, 193>>, 19970, 4, 1, <<2, 1, 2, 2, 3, 9,
        90000>>, TRUE>>, <<1008287, <<97, 157, 176, 146, 102, 136, 95, 191>>, 19972, 3, 1, <<8,
        5, 8, 4, 1, 9, 90000>>, TRUE>>, <<1008509, <<131, 156, 128, 173, 88, 224, 203, 176>>,
        431, 4, 2, <<7, 0, 6, 0, 1, 9, 200000>>, TRUE>>, <<1008652, <<244, 155, 80, 146, 56,
        245, 53, 160>>, -19979, 11, 2, <<7, 3, 6, 3, 3, 1, 200000>>, TRUE>>, <<1009885, <<35,
        151, 192, 134, 213, 221, 2, 180>>, -431, 2, 1, <<7, 4, 7, 3, 3, 9, 200000>>, TRUE>>,
        <<1010702, <<242, 147, 32, 180, 59, 184, 99, 209>>, 431, 23, 2, <<2, 2, 2, 3, 3, 9,
        200000>>, TRUE>>, <<1010770, <<174, 147, 32, 75, 47, 198, 181, 238>>, 431, 1, 2, <<6, 4,
        6, 3, 3, 9, 84071>>, TRUE>>, <<1011210, <<10, 110, 207, 10, 160, 152, 240, 52>>, 431, 5,
        2, <<8, 2, 7, 2, 3, 9, 200000>>, TRUE>>, <<1011296, <<96, 110, 207, 4, 178, 140, 73,
        24>>, -431, 1, 2, <<0, 0, 1, 0, 1, 9, 7326>>, TRUE>>, <<1011969, <<255, 142, 176, 70,
        180, 184, 48, 171>>, -2147483646, 2, 1, <<2, 0, 3, 0, 1, 9, 200000>>, TRUE>>, <<1012118,
        <<106, 142, 192, 68, 127, 97, 87, 200>>, 431, 13, 2, <<8, 4, 8, 5, 3, 9, 200000>>,
        TRUE>>, <<1012689, <<47, 140, 176, 177, 167, 132, 2, 180>>, -2147483646, 27, 1, <<1, 3,
        1, 2, 1, 9, 200000>>, TRUE>>, <<1012697, <<217, 115, 79, 190, 183, 233, 2, 3>>, 19970,
        3, 1, <<7, 3, 8, 3, 1, 9, 200000>>, TRUE>>, <<1012914, <<78, 139, 48, 252, 184, 164, 16,
        147>>, -431, 1, 1, <<6, 2, 6, 1, 1, 9, 90000>>, TRUE>>, <<1013346, <<158, 137, 96, 208,
        177, 70, 135, 132>>, -2147483646, 2, 1, <<2, 4, 2, 3, 3, 9, 200000>>, TRUE>>, <<1013566,
        <<62, 119, 63, 169, 27, 147, 40, 57>>, 432, 6, 1, <<2, 4, 2, 3, 3, 9, 200000>>, TRUE>>,
        <<1014157, <<141, 121, 239, 65, 89, 5, 168, 21>>, 431, 22, 2, <<1, 3, 1, 2, 1, 9,
        200000>>, TRUE>>, <<1014539, <<11, 123, 175, 116, 48, 252, 85, 107>>, -431, 3, 1, <<7,
        3, 6, 3, 3, 9, 200000>>, TRUE>>, <<1014564, <<36, 123, 127, 174, 152, 48, 196, 80>>,
        432, 10, 1, <<0, 1, 0, 2, 3, 9, 200000>>, TRUE>>, <<1014872, <<88, 124, 15, 227, 90, 86,
        42, 28>>, 431, 1, 2, <<2, 1, 1, 1, 3, 9, 90000>>, TRUE>>, <<1014876, <<92, 124, 191, 60,
        231, 233, 49, 106>>, -2147483646, 23, 1, <<2, 2, 2, 3, 3, 9, 200000>>, TRUE>>,
        <<1015014, <<26, 131, 192, 44, 92, 200, 219, 179>>, 19970, 4, 1, <<3, 0, 4, 0, 3, 9,
        200000>>, TRUE>>, <<1015024, <<240, 124, 31, 8, 18, 225, 167, 121>>, -431, 8, 2, <<1, 6,
        0, 6, 1, 9, 200000>>, TRUE>>, <<1015619, <<189, 128, 96, 245, 95, 186, 252, 214>>, 431,
        4, 2, <<8, 6, 7, 6, 1, 9, 90000>>, TRUE>>, <<1015809, <<255, 127, 32, 75, 55, 240, 253,
        167>>, -19987, 14, 2, <<0, 1, 0, 2, 3, 9, 200000>>, TRUE>>, <<1016011, <<53, 127, 80,
        149, 145, 144, 212, 176>>, -431, 5, 1, <<2, 1, 2, 2, 3, 9, 200000>>, TRUE>>, <<1016305,
        <<15, 126, 48, 242, 118, 239, 64, 229>>, 431, 10, 2, <<4, 0, 5, 0, 1, 9, 200000>>,
        TRUE>>, <<1016376, <<200, 125, 32, 99, 80, 244, 57, 164>>, 431, 3, 2, <<1, 1, 1, 2, 3,
        9, 90000>>, TRUE>>, <<1016581, <<5, 131, 191, 81, 153, 241, 108, 28>>, 1, 11, 1, <<3, 0,
        4, 0, 1, 9, 200000>>, TRUE>>, <<1017757, <<99, 120, 0, 84, 142, 177, 166, 155>>, 431, 2,
        2, <<8, 5, 7, 5, 1, 9, 308>>, TRUE>>, <<1017840, <<240, 135, 223, 110, 91, 122, 40,
        92>>, -431, 2, 1, <<2, 4, 2, 3, 1, 9, 47180>>, TRUE>>, <<1018061, <<51, 119, 80, 252,
        176, 91, 241, 236>>, -431, 1, 1, <<4, 0, 3, 0, 3, 9, 572>>, TRUE>>, <<1018575, <<49,
        117, 64, 232, 51, 21, 162, 148>>, 0, 3, 1, <<7, 4, 7, 3, 3, 9, 200000>>, TRUE>>,
        <<1018692, <<68, 139, 159, 2, 28, 68, 166, 32>>, -431, 3, 1, <<6, 5, 7, 5, 1, 9,
        200000>>, TRUE>>, <<1018797, <<83, 116, 96, 223, 208, 85, 214, 149>>, -19987, 26, 2,
        <<2, 4, 1, 4, 3, 9, 200000>>, TRUE>>, <<1019460, <<188, 113, 160, 37, 201, 14, 21,
        206>>, 431, 17, 2, <<6, 4, 6, 3, 3, 9, 200000>>, TRUE>>, <<1020225, <<65, 145, 47, 2,
        204, 251, 82, 37>>, -431, 5, 1, <<2, 2, 2, 3, 3, 9, 97696>>, TRUE>>, <<1023206, <<26,
        99, 160, 178, 88, 45, 225, 170>>, -431, 1, 1, <<8, 0, 7, 0, 1, 9, 294>>, TRUE>>,
        <<1023268, <<220, 98, 96, 232, 40, 38, 251, 188>>, 431, 23, 2, <<4, 3, 5, 3, 3, 9,
        200000>>, TRUE>>, <<1023358, <<130, 98, 240, 223, 183, 233, 93, 188>>, -431, 3, 1, <<7,
        0, 6, 0, 1, 9, 200000>>, TRUE>>, <<1024360, <<152, 94, 144, 60, 132, 211, 129, 231>>,
        431, 15, 2, <<5, 3, 6, 3, 3, 9, 200000>>, TRUE>>, <<1024953, <<71, 92, 32, 85, 101, 66,
        142, 194>>, -431, 1, 1, <<3, 0, 2, 0, 3, 9, 656>>, TRUE>>, <<1025154, <<130, 164, 175,
        174, 175, 168, 114, 46>>, -431, 13, 1, <<2, 4, 2, 5, 1, 9, 90000>>, TRUE>>, <<1025343,
        <<193, 90, 208, 54, 58, 66, 102, 251>>, -432, 2, 2, <<0, 1, 0, 2, 3, 9, 912>>, TRUE>>,
        <<1026404, <<156, 86, 16, 124, 123, 159, 31, 130>>, -431, 9, 1, <<6, 2, 6, 1, 1, 9,
        200000>>, TRUE>>, <<1026874, <<58, 171, 207, 204, 122, 82, 43, 70>>, 431, 16, 2, <<3, 3,
        4, 3, 3, 9, 200000>>, TRUE>>, <<1026886, <<186, 84, 224, 5, 228, 0, 119, 160>>, 431, 5,
        2, <<2, 5, 2, 4, 3, 9, 200000>>, TRUE>>, <<1027005, <<67, 84, 48, 107, 174, 210, 37,
        197>>, -2147483646, 1, 1, <<2, 3, 2, 2, 1, 9, 90000>>, TRUE>>, <<1027012, <<196, 171,
        127, 9, 33, 107, 90, 45>>, -431, 1, 1, <<8, 6, 7, 6, 1, 9, 39>>, TRUE>>, <<1027321, <<7,
        83, 96, 187, 199, 243, 207, 141>>, -431, 4, 1, <<7, 3, 6, 3, 3, 9, 200000>>, TRUE>>,
        <<1027432, <<152, 82, 16, 182, 45, 45, 178, 152>>, -431, 15, 1, <<0, 2, 1, 2, 1, 9,
        200000>>, TRUE>>, <<1027548, <<36, 82, 240, 190, 36, 182, 248, 207>>, -1, 1, 2, <<3, 0,
        2, 0, 1, 9, 90000>>, TRUE>>, <<1027648, <<192, 81, 112, 70, 151, 136, 211, 170>>,
        -2147483646, 25, 1, <<2, 3, 3, 3, 3, 9, 200000>>, TRUE>>, <<1027657, <<183, 81, 80, 177,
        189, 232, 76, 164>>, -19987, 22, 2, <<0, 2, 0, 3, 3, 9, 200000>>, TRUE>>, <<1027854,
        <<242, 80, 32, 192, 118, 53, 115, 184>>, -431, 1, 1, <<7, 6, 7, 5, 1, 9, 90000>>,
        TRUE>>, <<1028946, <<174, 76, 64, 108, 135, 81, 222, 209>>, -2147483646, 17, 1, <<2, 4,
        1, 4, 3, 9, 200000>>, TRUE>>, <<1029788, <<156, 182, 111, 165, 99, 89, 238, 4>>, -431,
        3, 1, <<6, 1, 6, 0, 1, 9, 200000>>, TRUE>>, <<1030409, <<247, 70, 64, 148, 224, 240, 63,
        150>>, 2147483646, 16, 2, <<1, 3, 2, 3, 3, 9, 200000>>, TRUE>>, <<1030500, <<156, 70,
        16, 35, 74, 242, 115, 134>>, 0, 9, 1, <<2, 0, 3, 0, 1, 9, 90000>>, TRUE>>, <<1031144,
        <<24, 68, 80, 191, 253, 116, 27, 200>>, 0, 1, 1, <<5, 0, 4, 0, 1, 9, 200000>>, TRUE>>,
        <<1031163, <<5, 68, 208, 150, 123, 229, 3, 198>>, -431, 2, 1, <<7, 1, 7, 2, 3, 9,
        200000>>, TRUE>>, <<1031743, <<63, 190, 223, 46, 41, 235, 137, 57>>, 431, 14, 2, <<0, 0,
        1, 0, 1, 9, 200000>>, TRUE>>, <<1031765, <<85, 190, 223, 32, 59, 255, 48, 21>>,
        2147483646, 8, 2, <<2, 5, 2, 4, 3, 9, 200000>>, TRUE>>, <<1032248, <<56, 192, 127, 91,
        116, 47, 169, 117>>, 431, 8, 2, <<2, 0, 3, 0, 3, 9, 90000>>, TRUE>>, <<1032283, <<165,
        63, 192, 171, 217, 209, 77, 208>>, -2147483646, 2, 1, <<4, 0, 3, 0, 1, 9, 200000>>,
        TRUE>>, <<1032434, <<242, 192, 47, 62, 159, 50, 71, 4>>, 431, 21, 2, <<6, 3, 7, 3, 3, 9,
        200000>>, TRUE>>, <<1032514, <<190, 62, 32, 222, 40, 226, 227, 157>>, -2147483646, 1, 1,
        <<3, 3, 2, 3, 3, 9, 200000>>, TRUE>>, <<1033022, <<62, 195, 95, 67, 17, 40, 128, 25>>,
        1, 8, 1, <<7, 1, 7, 2, 3, 9, 200000>>, TRUE>>, <<1033134, <<174, 195, 175, 62, 232, 137,
        218, 79>>, 432, 8, 1, <<0, 0, 0, 1, 3, 9, 4032>>, TRUE>>, <<1033286, <<70, 196, 31, 249,
        253, 168, 80, 115>>, -431, 31, 0, <<1, 0, 1, 1, 1, 9, 200000>>, TRUE>>, <<1034203, <<37,
        56, 80, 7, 178, 152, 246, 224>>, 2147483646, 4, 2, <<2, 5, 2, 6, 3, 9, 200000>>, TRUE>>,
        <<1035036, <<28, 203, 127, 46, 214, 99, 73, 60>>, 431, 10, 2, <<5, 3, 6, 3, 3, 9,
        200000>>, TRUE>>, <<1035804, <<228, 49, 64, 9, 3, 41, 250, 210>>, -431, 11, 1, <<1, 0,
        2, 0, 1, 9, 200000>>, TRUE>>, <<1037086, <<226, 44, 16, 209, 91, 127, 18, 156>>, 431, 1,
        2, <<3, 0, 2, 0, 3, 9, 184>>, TRUE>>, <<1037294, <<18, 44, 240, 97, 168, 16, 70, 198>>,
        -19975, 1, 2, <<8, 2, 8, 1, 3, 1, 119600>>, TRUE>>, <<1039962, <<166, 33, 128, 81, 152,
        245, 194, 147>>, -431, 1, 1, <<5, 6, 4, 6, 1, 9, 90000>>, TRUE>>, <<1040070, <<198, 222,
        159, 189, 127, 229, 195, 109>>, 431, 23, 2, <<4, 3, 5, 3, 3, 9, 200000>>, TRUE>>,
        <<1040704, <<192, 30, 112, 16, 78, 244, 110, 251>>, -431, 3, 1, <<3, 6, 4, 6, 1, 9,
        90000>>, TRUE>>, <<1041214, <<194, 28, 144, 49, 109, 126, 236, 217>>, -19971, 4, 2, <<6,
        3, 7, 3, 3, 1, 119600>>, TRUE>>, <<1041670, <<6, 229, 143, 38, 121, 157, 50, 41>>, 431,
        3, 2, <<2, 0, 1, 0, 3, 9, 200000>>, TRUE>>, <<1041843, <<77, 26, 144, 221, 180, 239,
        217, 161>>, -2147483646, 2, 1, <<3, 6, 4, 6, 1, 9, 90000>>, TRUE>>, <<1041884, <<36, 26,
        224, 162, 174, 17, 254, 176>>, -431, 3, 1, <<2, 6, 1, 6, 1, 9, 10015>>, TRUE>>,
        <<1041977, <<57, 230, 95, 87, 98, 74, 35, 9>>, 432, 7, 1, <<0, 2, 0, 1, 1, 9, 200000>>,
        TRUE>>, <<1041984, <<64, 230, 31, 222, 172, 9, 239, 52>>, 431, 4, 2, <<1, 5, 1, 6, 3, 9,
        16>>, TRUE>>, <<1043740, <<28, 237, 63, 94, 84, 202, 111, 66>>, 431, 5, 2, <<5, 0, 4, 0,
        3, 9, 105>>, TRUE>>, <<1043844, <<132, 237, 207, 220, 218, 13, 114, 98>>, -2147483646,
        1, 1, <<1, 3, 2, 3, 3, 9, 89190>>, TRUE>>, <<1043885, <<173, 237, 175, 228, 234, 43,
        116, 117>>, -19983, 12, 2, <<0, 2, 0, 3, 3, 9, 200000>>, TRUE>>, <<1043930, <<218, 237,
        143, 19, 192, 75, 235, 123>>, -2147483646, 25, 1, <<2, 3, 3, 3, 3, 9, 200000>>, TRUE>>,
        <<1044962, <<226, 241, 239, 99, 201, 210, 94, 117>>, 1, 6, 1, <<3, 3, 2, 3, 3, 9,
        200000>>, TRUE>>, <<1046034, <<238, 9, 128, 86, 112, 88, 189, 143>>, -2147483646, 2, 1,
        <<1, 5, 2, 5, 3, 9, 200000>>, TRUE>>, <<1046543, <<15, 248, 15, 141, 200, 54, 79, 64>>,
        2147483646, 5, 2, <<6, 3, 7, 3, 3, 9, 200000>>, TRUE>>, <<1047174, <<134, 250, 239, 118,
        29, 49, 75, 87>>, -431, 7, 1, <<2, 2, 1, 2, 1, 9, 200000>>, TRUE>>, <<1047488, <<64, 4,
        176, 147, 55, 83, 244, 212>>, 431, 10, 2, <<5, 3, 4, 3, 3, 9, 200000>>, TRUE>>}
      \* killer_moves of plies 0 to 29.
      killers ==
        <<<<[move |-> M(0, 0, 0, 0, 0, 0, 0), valid |-> FALSE], [move |-> M(0, 0, 0, 0, 0, 0,
        0), valid |-> FALSE]>>, <<[move |-> M(0, 2, 0, 1, 1, 9, 200000), valid |-> TRUE],
        [move |-> M(0, 0, 0, 1, 1, 9, 200000), valid |-> TRUE]>>, <<[move |-> M(6, 3, 7, 3, 3,
        9, 200000), valid |-> TRUE], [move |-> M(4, 3, 3, 3, 3, 9, 200000), valid |-> TRUE]>>,
        <<[move |-> M(1, 2, 2, 2, 1, 9, 200000), valid |-> TRUE], [move |-> M(2, 1, 2, 2, 1, 9,
        200000), valid |-> TRUE]>>, <<[move |-> M(5, 3, 4, 3, 3, 9, 200000), valid |-> TRUE],
        [move |-> M(7, 3, 7, 2, 3, 9, 200000), valid |-> TRUE]>>, <<[move |-> M(1, 3, 1, 2, 1,
        9, 200000), valid |-> TRUE], [move |-> M(2, 1, 2, 0, 1, 9, 200000), valid |-> TRUE]>>,
        <<[move |-> M(4, 3, 3, 3, 3, 9, 200000), valid |-> TRUE], [move |-> M(7, 4, 7, 3, 3, 9,
        200000), valid |-> TRUE]>>, <<[move |-> M(1, 4, 0, 4, 1, 9, 200000), valid |-> TRUE],
        [move |-> M(2, 3, 1, 3, 1, 9, 200000), valid |-> TRUE]>>, <<[move |-> M(3, 3, 2, 3, 3,
        9, 200000), valid |-> TRUE], [move |-> M(3, 3, 4, 3, 3, 9, 200000), valid |-> TRUE]>>,
        <<[move |-> M(1, 5, 1, 4, 1, 9, 200000), valid |-> TRUE], [move |-> M(1, 3, 1, 2, 1, 9,
        200000), valid |-> TRUE]>>, <<[move |-> M(2, 5, 2, 4, 3, 9, 200000), valid |-> TRUE],
        [move |-> M(2, 3, 2, 2, 3, 9, 200000), valid |-> TRUE]>>, <<[move |-> M(2, 5, 1, 5, 1,
        9, 200000), valid |-> TRUE], [move |-> M(0, 5, 1, 5, 1, 9, 200000), valid |-> TRUE]>>,
        <<[move |-> M(0, 4, 0, 3, 3, 9, 200000), valid |-> TRUE], [move |-> M(2, 2, 1, 2, 3, 9,
        200000), valid |-> TRUE]>>, <<[move |-> M(2, 6, 1, 6, 1, 9, 200000), valid |-> TRUE],
        [move |-> M(0, 4, 0, 5, 1, 9, 200000), valid |-> TRUE]>>, <<[move |-> M(1, 4, 0, 4, 3,
        9, 200000), valid |-> TRUE], [move |-> M(1, 4, 2, 4, 3, 9, 200000), valid |-> TRUE]>>,
        <<[move |-> M(3, 6, 2, 6, 1, 9, 2928), valid |-> TRUE], [move |-> M(3, 6, 4, 6, 1, 9,
        200000), valid |-> TRUE]>>, <<[move |-> M(3, 3, 4, 3, 3, 9, 200000), valid |-> TRUE],
        [move |-> M(1, 3, 0, 3, 3, 9, 119739), valid |-> TRUE]>>, <<[move |-> M(4, 6, 3, 6, 1,
        9, 200000), valid |-> TRUE], [move |-> M(3, 6, 4, 6, 1, 9, 200000), valid |-> TRUE]>>,
        <<[move |-> M(4, 3, 5, 3, 3, 9, 200000), valid |-> TRUE], [move |-> M(3, 3, 4, 3, 3, 9,
        200000), valid |-> TRUE]>>, <<[move |-> M(5, 6, 4, 6, 1, 9, 200000), valid |-> TRUE],
        [move |-> M(4, 6, 5, 6, 1, 9, 200000), valid |-> TRUE]>>, <<[move |-> M(0, 2, 0, 3, 3,
        9, 200000), valid |-> TRUE], [move |-> M(1, 3, 0, 3, 3, 9, 120080), valid |-> TRUE]>>,
        <<[move |-> M(6, 6, 5, 6, 1, 9, 200000), valid |-> TRUE], [move |-> M(6, 6, 7, 6, 1, 9,
        200000), valid |-> TRUE]>>, <<[move |-> M(2, 1, 2, 0, 3, 9, 864), valid |-> TRUE],
        [move |-> M(1, 0, 2, 0, 3, 9, 756), valid |-> TRUE]>>, <<[move |-> M(5, 6, 6, 6, 1, 9,
        200000), valid |-> TRUE], [move |-> M(7, 6, 7, 5, 1, 9, 200000), valid |-> TRUE]>>,
        <<[move |-> M(1, 3, 0, 3, 3, 9, 200000), valid |-> TRUE], [move |-> M(0, 2, 0, 3, 3, 9,
        200000), valid |-> TRUE]>>, <<[move |-> M(6, 6, 5, 6, 1, 9, 200000), valid |-> TRUE],
        [move |-> M(6, 6, 7, 6, 1, 9, 200000), valid |-> TRUE]>>, <<[move |-> M(0, 2, 0, 3, 3,
        9, 200000), valid |-> TRUE], [move |-> M(3, 0, 4, 0, 3, 9, 200000), valid |-> TRUE]>>,
        <<[move |-> M(7, 6, 7, 5, 1, 9, 200000), valid |-> TRUE], [move |-> M(5, 6, 6, 6, 1, 9,
        200000), valid |-> TRUE]>>, <<[move |-> M(0, 2, 0, 3, 3, 9, 120418), valid |-> TRUE],
        [move |-> M(1, 3, 0, 3, 3, 9, 200000), valid |-> TRUE]>>, <<[move |-> M(7, 5, 7, 4, 1,
        9, 200000), valid |-> TRUE], [move |-> M(7, 5, 7, 6, 1, 9, 200000), valid |-> TRUE]>>>>
      \* The counters of history_heuristic that are not 0, by index.
      counters ==
        {<<63, 21929>>, <<64, 45169>>, <<65, 36743>>, <<67, 8878>>, <<68, 9564>>, <<70, 7767>>,
        <<71, 4882>>, <<72, 34562>>, <<73, 12119>>, <<74, 35578>>, <<75, 31547>>, <<76, 12285>>,
        <<77, 32860>>, <<78, 5989>>, <<79, 54765>>, <<80, 47184>>, <<81, 3297>>, <<82, 2187>>,
        <<83, 3225>>, <<84, 32983>>, <<87, 2165>>, <<90, 9981>>, <<91, 15669>>, <<94, 1097>>,
        <<97, 6682>>, <<98, 2349>>, <<101, 614>>, <<104, 2919>>, <<105, 1906>>, <<106, 992>>,
        <<107, 159>>, <<108, 679>>, <<110, 28>>, <<111, 1209>>, <<112, 528>>, <<113, 236>>,
        <<114, 30>>, <<115, 246>>, <<116, 753>>, <<117, 1466>>, <<118, 900>>, <<119, 42>>,
        <<120, 2>>, <<122, 207>>, <<123, 44>>, <<189, 281>>, <<190, 4033>>, <<191, 14256>>,
        <<192, 120498>>, <<193, 15460>>, <<194, 12>>, <<196, 904>>, <<197, 2613>>, <<198,
        35246>>, <<199, 64996>>, <<200, 30766>>, <<201, 21>>, <<202, 32>>, <<203, 964>>, <<204,
        296>>, <<205, 24264>>, <<206, 97696>>, <<207, 19025>>, <<208, 1511>>, <<209, 1106>>,
        <<210, 652>>, <<213, 112478>>, <<216, 214>>, <<217, 442>>, <<220, 90352>>, <<223, 110>>,
        <<224, 186>>, <<227, 75406>>, <<230, 262>>, <<231, 63>>, <<234, 97755>>, <<235, 53>>,
        <<237, 323>>, <<238, 4>>, <<239, 6336>>, <<240, 59155>>, <<241, 120192>>, <<242, 154>>,
        <<243, 7>>, <<244, 307>>, <<245, 46>>, <<246, 110>>, <<247, 3358>>, <<249, 4234>>,
        <<250, 4244>>, <<251, 529>>}
      \* path_hashes_main.
      path ==
        <<<<245, 102, 237, 235, 76, 3, 226, 85>>, <<2, 192, 24, 251, 66, 120, 7, 32>>, <<161,
        97, 143, 243, 102, 119, 5, 246>>, <<244, 50, 37, 19, 150, 141, 74, 34>>, <<159, 54, 204,
        126, 127, 22, 47, 134>>, <<204, 234, 137, 101, 103, 129, 112, 149>>, <<9, 1, 255, 128,
        82, 75, 71, 138>>, <<132, 18, 43, 24, 66, 134, 94, 86>>, <<203, 169, 36, 243, 14, 247,
        84, 11>>, <<84, 224, 104, 78, 124, 233, 51, 251>>, <<99, 63, 37, 24, 96, 111, 117, 31>>,
        <<252, 118, 105, 165, 18, 113, 18, 239>>, <<67, 228, 135, 192, 44, 190, 232, 203>>,
        <<206, 247, 83, 88, 60, 115, 241, 23>>, <<217, 205, 246, 24, 186, 87, 89, 103>>, <<146,
        229, 85, 227, 11, 54, 80, 14>>, <<111, 214, 205, 145, 201, 61, 141, 195>>, <<220, 175,
        25, 64, 75, 222, 236, 19>>, <<255, 171, 173, 166, 48, 117, 199, 249>>, <<100, 91, 192,
        68, 24, 71, 11, 85>>, <<105, 24, 150, 49, 102, 42, 255, 89>>, <<242, 232, 251, 211, 78,
        24, 51, 245>>, <<253, 143, 202, 20, 213, 58, 23, 80>>, <<78, 246, 30, 197, 87, 217, 118,
        128>>, <<19, 60, 169, 121, 5, 35, 110, 245>>, <<88, 20, 10, 130, 180, 66, 103, 156>>,
        <<5, 222, 189, 62, 230, 184, 127, 233>>, <<86, 2, 248, 37, 254, 47, 32, 250>>, <<11,
        200, 79, 153, 172, 213, 56, 143>>, <<94, 155, 229, 121, 92, 47, 119, 91>>, <<5, 81, 120,
        5, 59, 161, 12, 16>>, <<80, 2, 210, 229, 203, 91, 67, 196>>, <<189, 103, 78, 83, 42, 67,
        59, 135>>, <<>>, <<>>>>
      \* The iterations completed.
      iterations ==
        <<[depth |-> 1, root_moves |-> <<M(0, 1, 1, 1, 1, 9, 0), M(0, 1, 0, 0, 1, 9, 0), M(0, 1,
        0, 2, 1, 9, 0)>>, scores |-> <<-215, -216, -214>>, in_time |-> <<TRUE>>], [depth |-> 2,
        root_moves |-> <<M(0, 1, 1, 1, 1, 9, 0), M(0, 1, 0, 0, 1, 9, 0), M(0, 1, 0, 2, 1, 9,
        0)>>, scores |-> <<-457, -458, -455>>, in_time |-> <<TRUE>>], [depth |-> 3,
        root_moves |-> <<M(0, 1, 1, 1, 1, 9, 0), M(0, 1, 0, 0, 1, 9, 0), M(0, 1, 0, 2, 1, 9,
        0)>>, scores |-> <<-455, -457, -455>>, in_time |-> <<TRUE>>], [depth |-> 4,
        root_moves |-> <<M(0, 1, 1, 1, 1, 9, 0), M(0, 1, 0, 0, 1, 9, 0), M(0, 1, 0, 2, 1, 9,
        0)>>, scores |-> <<-479, -480, -479>>, in_time |-> <<TRUE>>], [depth |-> 5,
        root_moves |-> <<M(0, 1, 1, 1, 1, 9, 0), M(0, 1, 0, 0, 1, 9, 0), M(0, 1, 0, 2, 1, 9,
        0)>>, scores |-> <<-478, -479, -478>>, in_time |-> <<TRUE>>], [depth |-> 6,
        root_moves |-> <<M(0, 1, 0, 2, 1, 9, 200000), M(0, 1, 1, 1, 1, 9, 0), M(0, 1, 0, 0, 1,
        9, 0)>>, scores |-> <<-505, -505, -505>>, in_time |-> <<TRUE>>], [depth |-> 7,
        root_moves |-> <<M(0, 1, 0, 2, 1, 9, 200000), M(0, 1, 1, 1, 1, 9, 0), M(0, 1, 0, 0, 1,
        9, 0)>>, scores |-> <<-504, -504, -504>>, in_time |-> <<TRUE>>], [depth |-> 8,
        root_moves |-> <<M(0, 1, 0, 2, 1, 9, 200000), M(0, 1, 1, 1, 1, 9, 0), M(0, 1, 0, 0, 1,
        9, 0)>>, scores |-> <<-482, -482, -482>>, in_time |-> <<TRUE>>], [depth |-> 9,
        root_moves |-> <<M(0, 1, 0, 2, 1, 9, 200000), M(0, 1, 0, 0, 1, 9, 1), M(0, 1, 1, 1, 1,
        9, 0)>>, scores |-> <<-478, -430, -430>>, in_time |-> <<TRUE>>], [depth |-> 10,
        root_moves |-> <<M(0, 1, 0, 2, 1, 9, 200000), M(0, 1, 0, 0, 1, 9, 5), M(0, 1, 1, 1, 1,
        9, 0)>>, scores |-> <<-478, -478, -478>>, in_time |-> <<TRUE>>], [depth |-> 11,
        root_moves |-> <<M(0, 1, 0, 2, 1, 9, 200000), M(0, 1, 0, 0, 1, 9, 24), M(0, 1, 1, 1, 1,
        9, 0)>>, scores |-> <<-478, -478, -478>>, in_time |-> <<TRUE>>], [depth |-> 12,
        root_moves |-> <<M(0, 1, 0, 2, 1, 9, 200000), M(0, 1, 0, 0, 1, 9, 60), M(0, 1, 1, 1, 1,
        9, 0)>>, scores |-> <<-478, -478, -478>>, in_time |-> <<TRUE>>], [depth |-> 13,
        root_moves |-> <<M(0, 1, 0, 2, 1, 9, 200000), M(0, 1, 0, 0, 1, 9, 119), M(0, 1, 1, 1, 1,
        9, 0)>>, scores |-> <<-478, -478, -478>>, in_time |-> <<TRUE>>], [depth |-> 14,
        root_moves |-> <<M(0, 1, 0, 2, 1, 9, 200000), M(0, 1, 0, 0, 1, 9, 195), M(0, 1, 1, 1, 1,
        9, 0)>>, scores |-> <<-478, -478, -478>>, in_time |-> <<TRUE>>], [depth |-> 15,
        root_moves |-> <<M(0, 1, 0, 2, 1, 9, 200000), M(0, 1, 0, 0, 1, 9, 318), M(0, 1, 1, 1, 1,
        9, 0)>>, scores |-> <<-478, -478, -478>>, in_time |-> <<TRUE>>], [depth |-> 16,
        root_moves |-> <<M(0, 1, 0, 2, 1, 9, 200000), M(0, 1, 0, 0, 1, 9, 486), M(0, 1, 1, 1, 1,
        9, 0)>>, scores |-> <<-478, -478, -478>>, in_time |-> <<TRUE>>], [depth |-> 17,
        root_moves |-> <<M(0, 1, 0, 2, 1, 9, 200000), M(0, 1, 0, 0, 1, 9, 693), M(0, 1, 1, 1, 1,
        9, 0)>>, scores |-> <<-431, -478, -431>>, in_time |-> <<TRUE>>], [depth |-> 18,
        root_moves |-> <<M(0, 1, 0, 2, 1, 9, 200000), M(0, 1, 0, 0, 1, 9, 943), M(0, 1, 1, 1, 1,
        9, 0)>>, scores |-> <<-431, -431, -431>>, in_time |-> <<TRUE>>], [depth |-> 19,
        root_moves |-> <<M(0, 1, 0, 2, 1, 9, 200000), M(0, 1, 0, 0, 1, 9, 1079), M(0, 1, 1, 1,
        1, 9, 1)>>, scores |-> <<-431, -431, -431>>, in_time |-> <<TRUE>>], [depth |-> 20,
        root_moves |-> <<M(0, 1, 0, 2, 1, 9, 200000), M(0, 1, 0, 0, 1, 9, 1228), M(0, 1, 1, 1,
        1, 9, 69)>>, scores |-> <<-431, -431, -431>>, in_time |-> <<TRUE>>], [depth |-> 21,
        root_moves |-> <<M(0, 1, 0, 2, 1, 9, 200000), M(0, 1, 0, 0, 1, 9, 1457), M(0, 1, 1, 1,
        1, 9, 246)>>, scores |-> <<-431, -431, -431>>, in_time |-> <<TRUE>>], [depth |-> 22,
        root_moves |-> <<M(0, 1, 0, 2, 1, 9, 200000), M(0, 1, 0, 0, 1, 9, 1710), M(0, 1, 1, 1,
        1, 9, 395)>>, scores |-> <<-431, -431, -431>>, in_time |-> <<TRUE>>], [depth |-> 23,
        root_moves |-> <<M(0, 1, 0, 2, 1, 9, 200000), M(0, 1, 0, 0, 1, 9, 2029), M(0, 1, 1, 1,
        1, 9, 580)>>, scores |-> <<-431, -431, -431>>, in_time |-> <<TRUE>>], [depth |-> 24,
        root_moves |-> <<M(0, 1, 0, 2, 1, 9, 200000), M(0, 1, 0, 0, 1, 9, 2422), M(0, 1, 1, 1,
        1, 9, 805)>>, scores |-> <<-431, -431, -431>>, in_time |-> <<TRUE>>], [depth |-> 25,
        root_moves |-> <<M(0, 1, 0, 2, 1, 9, 200000), M(0, 1, 0, 0, 1, 9, 2897), M(0, 1, 1, 1,
        1, 9, 905)>>, scores |-> <<-431, -431, -431>>, in_time |-> <<TRUE>>], [depth |-> 26,
        root_moves |-> <<M(0, 1, 0, 2, 1, 9, 200000), M(0, 1, 0, 0, 1, 9, 3462), M(0, 1, 1, 1,
        1, 9, 1076)>>, scores |-> <<-431, -431, -431>>, in_time |-> <<TRUE>>], [depth |-> 27,
        root_moves |-> <<M(0, 1, 0, 2, 1, 9, 200000), M(0, 1, 0, 0, 1, 9, 4405), M(0, 1, 1, 1,
        1, 9, 1292)>>, scores |-> <<-431, -431, -431>>, in_time |-> <<TRUE>>], [depth |-> 28,
        root_moves |-> <<M(0, 1, 0, 2, 1, 9, 200000), M(0, 1, 0, 0, 1, 9, 5563), M(0, 1, 1, 1,
        1, 9, 1749)>>, scores |-> <<-431, -431, -431>>, in_time |-> <<TRUE>>], [depth |-> 29,
        root_moves |-> <<M(0, 1, 0, 2, 1, 9, 200000), M(0, 1, 0, 0, 1, 9, 7286), M(0, 1, 1, 1,
        1, 9, 2110)>>, scores |-> <<-431, -431, -431>>, in_time |-> <<TRUE>>], [depth |-> 30,
        root_moves |-> <<M(0, 1, 0, 2, 1, 9, 200000), M(0, 1, 0, 0, 1, 9, 8693), M(0, 1, 1, 1,
        1, 9, 2360)>>, scores |-> <<-431, -431, -431>>, in_time |-> <<TRUE>>], [depth |-> 31,
        root_moves |-> <<M(0, 1, 0, 2, 1, 9, 200000), M(0, 1, 0, 0, 1, 9, 10301), M(0, 1, 1, 1,
        1, 9, 2652)>>, scores |-> <<-431, -431, -431>>, in_time |-> <<TRUE>>], [depth |-> 32,
        root_moves |-> <<M(0, 1, 0, 2, 1, 9, 200000), M(0, 1, 0, 0, 1, 9, 12127), M(0, 1, 1, 1,
        1, 9, 2990)>>, scores |-> <<-431, -431, -431>>, in_time |-> <<TRUE>>], [depth |-> 33,
        root_moves |-> <<M(0, 1, 0, 2, 1, 9, 200000), M(0, 1, 0, 0, 1, 9, 14191), M(0, 1, 1, 1,
        1, 9, 3378)>>, scores |-> <<-431, -431, -431>>, in_time |-> <<TRUE>>], [depth |-> 34,
        root_moves |-> <<M(0, 1, 0, 2, 1, 9, 200000), M(0, 1, 0, 0, 1, 9, 16495), M(0, 1, 1, 1,
        1, 9, 3820)>>, scores |-> <<-431, -431, -431>>, in_time |-> <<TRUE>>], [depth |-> 35,
        root_moves |-> <<M(0, 1, 0, 2, 1, 9, 200000), M(0, 1, 0, 0, 1, 9, 19063), M(0, 1, 1, 1,
        1, 9, 4320)>>, scores |-> <<-431, -431, -431>>, in_time |-> <<TRUE>>], [depth |-> 36,
        root_moves |-> <<M(0, 1, 0, 2, 1, 9, 200000), M(0, 1, 0, 0, 1, 9, 21929), M(0, 1, 1, 1,
        1, 9, 4882)>>, scores |-> <<>>, in_time |-> <<>>]>>
      \* The evaluations that had a rounding to choose, by board.
      evaluations ==
        {<<{<<1, 1, 0, 0>>, <<3, 0, 8, 6>>}, -209>>, <<{<<1, 1, 0, 1>>, <<3, 0, 2, 0>>}, -433>>,
        <<{<<1, 1, 0, 1>>, <<3, 0, 2, 1>>}, -457>>, <<{<<1, 1, 0, 1>>, <<3, 0, 2, 2>>}, -481>>,
        <<{<<1, 1, 0, 1>>, <<3, 0, 2, 4>>}, -481>>, <<{<<1, 1, 0, 1>>, <<3, 0, 2, 5>>}, -457>>,
        <<{<<1, 1, 0, 1>>, <<3, 0, 2, 6>>}, -433>>, <<{<<1, 1, 0, 2>>, <<3, 0, 2, 3>>}, -505>>,
        <<{<<1, 1, 0, 2>>, <<3, 0, 5, 6>>}, -207>>, <<{<<1, 1, 0, 2>>, <<3, 0, 8, 5>>}, -209>>,
        <<{<<1, 1, 0, 4>>, <<3, 0, 2, 3>>}, -505>>, <<{<<1, 1, 0, 4>>, <<3, 0, 8, 1>>}, -209>>,
        <<{<<1, 1, 0, 4>>, <<3, 0, 8, 5>>}, -209>>, <<{<<1, 1, 0, 5>>, <<3, 0, 2, 1>>}, -457>>,
        <<{<<1, 1, 0, 5>>, <<3, 0, 2, 2>>}, -481>>, <<{<<1, 1, 0, 5>>, <<3, 0, 2, 4>>}, -481>>,
        <<{<<1, 1, 0, 5>>, <<3, 0, 2, 5>>}, -457>>, <<{<<1, 1, 1, 0>>, <<3, 0, 6, 2>>}, -214>>,
        <<{<<1, 1, 1, 0>>, <<3, 0, 6, 4>>}, -214>>, <<{<<1, 1, 1, 1>>, <<3, 0, 0, 2>>}, -518>>,
        <<{<<1, 1, 1, 1>>, <<3, 0, 0, 4>>}, -518>>, <<{<<1, 1, 1, 1>>, <<3, 0, 0, 5>>}, -506>>,
        <<{<<1, 1, 1, 1>>, <<3, 0, 6, 6>>}, -208>>, <<{<<1, 1, 1, 2>>, <<3, 0, 6, 3>>}, -214>>,
        <<{<<1, 1, 1, 3>>, <<3, 0, 3, 3>>}, -478>>, <<{<<1, 1, 1, 3>>, <<3, 0, 6, 1>>}, -208>>,
        <<{<<1, 1, 1, 3>>, <<3, 0, 6, 5>>}, -208>>, <<{<<1, 1, 1, 4>>, <<3, 0, 6, 3>>}, -214>>,
        <<{<<1, 1, 1, 5>>, <<3, 0, 0, 0>>}, -482>>, <<{<<1, 1, 1, 5>>, <<3, 0, 0, 1>>}, -506>>,
        <<{<<1, 1, 1, 5>>, <<3, 0, 0, 2>>}, -518>>, <<{<<1, 1, 1, 5>>, <<3, 0, 0, 4>>}, -518>>,
        <<{<<1, 1, 1, 5>>, <<3, 0, 0, 5>>}, -509>>, <<{<<1, 1, 1, 5>>, <<3, 0, 6, 0>>}, -208>>,
        <<{<<1, 1, 1, 6>>, <<3, 0, 6, 2>>}, -214>>, <<{<<1, 1, 1, 6>>, <<3, 0, 6, 4>>}, -214>>,
        <<{<<1, 1, 2, 0>>, <<3, 0, 4, 0>>}, -385>>, <<{<<1, 1, 2, 0>>, <<3, 0, 4, 6>>}, -385>>,
        <<{<<1, 1, 2, 0>>, <<3, 0, 7, 6>>}, -209>>, <<{<<1, 1, 2, 1>>, <<3, 0, 4, 3>>}, -457>>,
        <<{<<1, 1, 2, 1>>, <<3, 0, 7, 3>>}, -215>>, <<{<<1, 1, 2, 2>>, <<3, 0, 7, 5>>}, -209>>,
        <<{<<1, 1, 2, 3>>, <<3, 0, 1, 0>>}, -455>>, <<{<<1, 1, 2, 3>>, <<3, 0, 1, 1>>}, -479>>,
        <<{<<1, 1, 2, 3>>, <<3, 0, 1, 3>>}, -509>>, <<{<<1, 1, 2, 3>>, <<3, 0, 1, 5>>}, -479>>,
        <<{<<1, 1, 2, 3>>, <<3, 0, 1, 6>>}, -455>>, <<{<<1, 1, 2, 5>>, <<3, 0, 4, 3>>}, -457>>,
        <<{<<1, 1, 2, 5>>, <<3, 0, 7, 3>>}, -215>>, <<{<<1, 1, 2, 6>>, <<3, 0, 4, 0>>}, -385>>,
        <<{<<1, 1, 3, 0>>, <<3, 0, 2, 0>>}, -437>>, <<{<<1, 1, 3, 0>>, <<3, 0, 2, 1>>}, -458>>,
        <<{<<1, 1, 3, 0>>, <<3, 0, 2, 2>>}, -482>>, <<{<<1, 1, 3, 0>>, <<3, 0, 2, 4>>}, -482>>,
        <<{<<1, 1, 3, 0>>, <<3, 0, 2, 5>>}, -458>>, <<{<<1, 1, 3, 0>>, <<3, 0, 2, 6>>}, -434>>,
        <<{<<1, 1, 3, 3>>, <<3, 0, 8, 2>>}, -210>>, <<{<<1, 1, 3, 3>>, <<3, 0, 8, 4>>}, -210>>,
        <<{<<1, 1, 3, 6>>, <<3, 0, 2, 1>>}, -458>>, <<{<<1, 1, 3, 6>>, <<3, 0, 2, 2>>}, -482>>,
        <<{<<1, 1, 3, 6>>, <<3, 0, 2, 4>>}, -482>>, <<{<<1, 1, 3, 6>>, <<3, 0, 2, 5>>}, -458>>,
        <<{<<1, 1, 4, 0>>, <<3, 0, 6, 2>>}, -126>>, <<{<<1, 1, 4, 0>>, <<3, 0, 6, 4>>}, -126>>,
        <<{<<1, 1, 4, 3>>, <<3, 0, 3, 3>>}, -360>>, <<{<<1, 1, 4, 3>>, <<3, 0, 6, 1>>}, -87>>,
        <<{<<1, 1, 4, 6>>, <<3, 0, 6, 2>>}, -126>>, <<{<<1, 1, 4, 6>>, <<3, 0, 6, 4>>}, -126>>,
        <<{<<1, 1, 5, 0>>, <<3, 0, 4, 3>>}, -358>>, <<{<<1, 1, 5, 0>>, <<3, 0, 7, 3>>}, -116>>,
        <<{<<1, 1, 5, 3>>, <<3, 0, 4, 3>>}, -325>>, <<{<<1, 1, 5, 3>>, <<3, 0, 7, 3>>}, -80>>,
        <<{<<1, 1, 5, 6>>, <<3, 0, 4, 3>>}, -358>>, <<{<<1, 1, 5, 6>>, <<3, 0, 7, 3>>}, -116>>,
        <<{<<1, 1, 6, 0>>, <<3, 0, 5, 3>>}, -104>>, <<{<<1, 1, 6, 1>>, <<3, 0, 5, 3>>}, -92>>,
        <<{<<1, 1, 6, 3>>, <<3, 0, 2, 1>>}, -309>>, <<{<<1, 1, 6, 3>>, <<3, 0, 2, 2>>}, -333>>,
        <<{<<1, 1, 6, 3>>, <<3, 0, 2, 4>>}, -333>>, <<{<<1, 1, 6, 3>>, <<3, 0, 2, 5>>}, -309>>,
        <<{<<1, 1, 6, 5>>, <<3, 0, 5, 3>>}, -92>>, <<{<<1, 1, 6, 6>>, <<3, 0, 5, 3>>}, -104>>,
        <<{<<1, 1, 7, 4>>, <<3, 0, 6, 3>>}, -67>>, <<{<<1, 1, 8, 0>>, <<3, 0, 7, 0>>}, -75>>,
        <<{<<1, 1, 8, 1>>, <<3, 0, 7, 0>>}, -60>>}
  IN /\ inBoard = BoardOf({<<PIECE_TYPE_CAT, PLAYER1, 0, 1>>, <<PIECE_TYPE_WOLF, PLAYER0, 5, 3>>})
     /\ inDepth = 36
     /\ pc = "root"
     /\ drv = driver
     /\ stack = [k \in 1 .. Len(frames) |-> [frames[k] EXCEPT !.board = BoardOf(frames[k].board)]]
     /\ ret = None
     /\ expired = FALSE
     /\ ai_run_counter = 61182
     /\ transposition_table =
          [idx \in {e[1] : e \in entries} |->
             LET e == CHOOSE x \in entries : x[1] = idx
             IN [hash_key |-> e[2], score |-> e[3], depth |-> e[4], flag |-> e[5],
                 best_move |-> M(e[6][1], e[6][2], e[6][3], e[6][4], e[6][5], e[6][6], e[6][7]),
                 best_move_valid |-> e[7]]]
     /\ killer_moves = [ply \in 0 .. (MAX_PLY_FOR_KILLERS - 1) |-> killers[ply + 1]]
     /\ history_heuristic =
          [idx \in {c[1] : c \in counters} |-> (CHOOSE c \in counters : c[1] = idx)[2]]
     /\ path_hashes = [k \in 0 .. (PathSlots - 1) |-> path[k + 1]]
     /\ result_buffer = [k \in 0 .. (ResultSlots - 1) |-> None]
     /\ iterLog = iterations
     /\ calls = 1
     /\ earlier = << >>
     /\ rounded = { <<BoardOf(p[1]), p[2]>> : p \in evaluations }
     /\ ordering = None
     /\ wBoard = EmptyBoard
     /\ wSide = PLAYER1
     /\ wHash = compute_zobrist_key_full(wBoard, wSide)
     /\ wSteps = 0
     /\ wCaptures = 0
     /\ wNulls = 0

\* The call entered is among those followed.
Followed == ai_run_counter' <= 61182 + 1 + MaxPathCalls

\* The steps of Next that these calls take.
PathNext ==
  \/ ABTimeout /\ Followed
  \/ ABRepetition /\ Followed
  \/ ABTTReturn /\ Followed
  \/ ABQuiesce /\ Followed
  \/ ABExpand /\ Followed
  \/ ABChildTimeout /\ Followed
  \/ ABNextMove /\ Followed
  \/ QTimeout /\ Followed
  \/ QStandPat /\ Followed
  \/ DrvAbort /\ Followed

SpecPath == PathInit /\ [][PathNext]_vars

(***************************************************************************)
(* Properties of the hasher, the rules and the move generator              *)
(***************************************************************************)
Sides == {PLAYER0, PLAYER1}

Rows == 0 .. (BOARD_ROWS - 1)

Cols == 0 .. (BOARD_COLS - 1)

\* The squares at distance one from (r, c), on the board or off it.
Neighbours(r, c) == { <<r - 1, c>>, <<r + 1, c>>, <<r, c - 1>>, <<r, c + 1>> }

IsOneSquare(m) == Abs(m.to_row - m.from_row) + Abs(m.to_col - m.from_col) = 1

\* The den of a side, by its coordinates.
IsDenOf(side, r, c) ==
  \/ side = PLAYER0 /\ r = 8 /\ c = 3
  \/ side = PLAYER1 /\ r = 0 /\ c = 3

IsWaterSquare(r, c) == r \in 3 .. 5 /\ c \in {1, 2, 4, 5}

\* The trap squares that reduce a piece of the given side to rank 0: the
\* three traps of its opponent.
IsOpposingTrap(side, r, c) ==
  \/ side = PLAYER1 /\ <<r, c>> \in { <<8, 2>>, <<8, 4>>, <<7, 3>> }
  \/ side = PLAYER0 /\ <<r, c>> \in { <<0, 2>>, <<0, 4>>, <<1, 3>> }

\* What a destination must satisfy for the piece on (r, c), apart from water.
LandingRule(board, side, r, c, nr, nc) ==
  /\ ~ IsDenOf(side, nr, nc)
  /\ ~ (board[Sq(nr, nc)].type # NO_PIECE /\ board[Sq(nr, nc)].player = side)
  /\ board[Sq(nr, nc)].type # NO_PIECE
       => rules_can_capture(board[Sq(r, c)], board[Sq(nr, nc)], r, c, nr, nc)

\* C3 (hash consistency): along every line of play made of generated moves
\* and null moves, the incrementally maintained hash equals the full
\* recomputation on the current board with the side that is then to move.
C3_HashConsistency == wHash = compute_zobrist_key_full(wBoard, wSide)

\* A line of play with a capture and a null move in it has been played.
C3_Witness == wSteps >= 2 /\ wCaptures >= 1 /\ wNulls >= 1

\* The rule of claim C4 for a step of side's piece from (r, c) to (nr, nc).
StepRule(board, side, r, c, nr, nc) ==
  /\ board[Sq(r, c)].type # NO_PIECE
  /\ board[Sq(r, c)].player = side
  /\ nr \in Rows /\ nc \in Cols
  /\ IsWaterSquare(nr, nc) => board[Sq(r, c)].type = PIECE_TYPE_RAT
  /\ LandingRule(board, side, r, c, nr, nc)

\* C4 (move legality of steps): for either side, the generator in all-moves
\* mode emits a step (r,c) -> (nr,nc) iff (r,c) holds a piece of that side,
\* (nr,nc) is on the board, is not the mover's den, is water only for a Rat,
\* holds no own piece and holds an enemy piece only if can_capture; every
\* emitted step records the mover's type and the type on the destination.
C4_StepLegality ==
  \A side \in Sides :
    LET moves == generate_all_valid_moves(wBoard, side, FALSE)
        emitted == { <<moves[i].from_row, moves[i].from_col,
                       moves[i].to_row, moves[i].to_col>> : i \in 1 .. Len(moves) }
        Own(r, c) == wBoard[Sq(r, c)].type # NO_PIECE /\ wBoard[Sq(r, c)].player = side
    IN /\ \A e \in emitted : Own(e[1], e[2])
       /\ \A r \in Rows, c \in Cols :
            Own(r, c) =>
              \A n \in Neighbours(r, c) :
                <<r, c, n[1], n[2]>> \in emitted
                  <=> StepRule(wBoard, side, r, c, n[1], n[2])
       /\ \A i \in 1 .. Len(moves) :
            IsOneSquare(moves[i]) =>
              /\ moves[i].piece_type = wBoard[Sq(moves[i].from_row, moves[i].from_col)].type
              /\ moves[i].captured_piece_type
                   = wBoard[Sq(moves[i].to_row, moves[i].to_col)].type

\* A position played to in which the generator emits a Rat's step into water
\* and a capturing step, and refuses another piece the step into water.
C4_Witness ==
  /\ wSteps >= 1
  /\ \E side \in Sides :
       LET moves == generate_all_valid_moves(wBoard, side, FALSE)
       IN /\ \E i \in 1 .. Len(moves) :
               /\ IsOneSquare(moves[i])
               /\ moves[i].piece_type = PIECE_TYPE_RAT
               /\ IsWaterSquare(moves[i].to_row, moves[i].to_col)
          /\ \E i \in 1 .. Len(moves) :
               IsOneSquare(moves[i]) /\ moves[i].captured_piece_type # NO_PIECE
          /\ \E r \in Rows, c \in Cols : \E n \in Neighbours(r, c) :
               /\ wBoard[Sq(r, c)].type \notin {NO_PIECE, PIECE_TYPE_RAT}
               /\ wBoard[Sq(r, c)].player = side
               /\ n[1] \in Rows /\ n[2] \in Cols
               /\ IsWaterSquare(n[1], n[2])
               /\ wBoard[Sq(n[1], n[2])].type = NO_PIECE

\* C6 (Rat attacking out of water): for a Rat on a water square and an enemy
\* piece on an adjacent non-water square, can_capture is true exactly when
\* the defender is an Elephant, and the generator emits exactly those captures.
C6_RatFromWater ==
  \A r \in Rows, c \in Cols : \A n \in Neighbours(r, c) :
    ( /\ IsWaterSquare(r, c)
      /\ wBoard[Sq(r, c)].type = PIECE_TYPE_RAT
      /\ n[1] \in Rows /\ n[2] \in Cols
      /\ ~ IsWaterSquare(n[1], n[2])
      /\ wBoard[Sq(n[1], n[2])].type # NO_PIECE
      /\ wBoard[Sq(n[1], n[2])].player = get_opponent(wBoard[Sq(r, c)].player) )
    =>
    LET rat == wBoard[Sq(r, c)]
        def == wBoard[Sq(n[1], n[2])]
        moves == generate_all_valid_moves(wBoard, rat.player, FALSE)
        emitted == \E i \in 1 .. Len(moves) :
                      /\ moves[i].from_row = r /\ moves[i].from_col = c
                      /\ moves[i].to_row = n[1] /\ moves[i].to_col = n[2]
    IN /\ rules_can_capture(rat, def, r, c, n[1], n[2])
            <=> (def.type = PIECE_TYPE_ELEPHANT)
       /\ emitted <=> (def.type = PIECE_TYPE_ELEPHANT)

\* The river cells strictly between two squares of one row or one column.
Between(r, c, nr, nc) ==
  { <<x, y>> \in Rows \X Cols :
      \/ x = r /\ r = nr /\ ((c < y /\ y < nc) \/ (nc < y /\ y < c))
      \/ y = c /\ c = nc /\ ((r < x /\ x < nr) \/ (nr < x /\ x < r)) }

\* The rule of claim C7 for a jump of side's piece from (r, c) to (nr, nc).
JumpRule(board, side, r, c, nr, nc) ==
  /\ board[Sq(r, c)].type # NO_PIECE
  /\ board[Sq(r, c)].player = side
  /\ \/ /\ board[Sq(r, c)].type \in {PIECE_TYPE_LION, PIECE_TYPE_TIGER}
        /\ c = nc /\ c \in {1, 2, 4, 5}
        /\ <<r, nr>> \in { <<2, 6>>, <<6, 2>> }
     \/ /\ board[Sq(r, c)].type = PIECE_TYPE_LION
        /\ r = nr /\ r \in 3 .. 5
        /\ <<c, nc>> \in { <<0, 3>>, <<3, 0>>, <<3, 6>>, <<6, 3>> }
  /\ \A x \in Between(r, c, nr, nc) : board[Sq(x[1], x[2])].type = NO_PIECE
  /\ ~ IsWaterSquare(nr, nc)
  /\ LandingRule(board, side, r, c, nr, nc)

\* C7 (river jumps): for either side, the generator emits a move longer than
\* one square from (r,c) to (nr,nc) iff the mover is a Lion or Tiger jumping
\* a column of the river between rows 2 and 6, or a Lion jumping a row of it
\* between columns 0 and 3 or 3 and 6, every river cell in between is empty,
\* and the landing square passes the rules of a step; in captures-only mode
\* the same holds of the jumps that land on a piece.
C7_RiverJumps ==
  \A side \in Sides, captures_only \in BOOLEAN :
    LET moves == generate_all_valid_moves(wBoard, side, captures_only)
        Rule(r, c, nr, nc) ==
          /\ JumpRule(wBoard, side, r, c, nr, nc)
          /\ captures_only => wBoard[Sq(nr, nc)].type # NO_PIECE
    IN /\ \A i \in 1 .. Len(moves) :
            ~ IsOneSquare(moves[i]) =>
              Rule(moves[i].from_row, moves[i].from_col,
                   moves[i].to_row, moves[i].to_col)
       /\ \A r \in Rows, c \in Cols :
            ( /\ wBoard[Sq(r, c)].type \in {PIECE_TYPE_LION, PIECE_TYPE_TIGER}
              /\ wBoard[Sq(r, c)].player = side ) =>
              \A nr \in Rows, nc \in Cols :
                (Abs(nr - r) + Abs(nc - c) # 1 /\ Rule(r, c, nr, nc)) =>
                  \E i \in 1 .. Len(moves) :
                     /\ moves[i].from_row = r /\ moves[i].from_col = c
                     /\ moves[i].to_row = nr /\ moves[i].to_col = nc

\* A position played to in which one jump is emitted and captures, and
\* another jump of the same side is refused because a piece is in the river.
C7_Witness ==
  /\ wSteps >= 1
  /\ \E side \in Sides :
       LET moves == generate_all_valid_moves(wBoard, side, FALSE)
       IN /\ \E i \in 1 .. Len(moves) :
               ~ IsOneSquare(moves[i]) /\ moves[i].captured_piece_type # NO_PIECE
          /\ \E r \in Rows, c \in Cols, nr \in Rows, nc \in Cols :
               /\ wBoard[Sq(r, c)].type = PIECE_TYPE_LION
               /\ wBoard[Sq(r, c)].player = side
               /\ r = nr /\ <<c, nc>> \in { <<3, 6>>, <<3, 0>> } /\ r \in 3 .. 5
               /\ wBoard[Sq(nr, nc)].type = NO_PIECE
               /\ \E x \in Between(r, c, nr, nc) : wBoard[Sq(x[1], x[2])].type # NO_PIECE
               /\ ~ \E i \in 1 .. Len(moves) :
                      /\ moves[i].from_row = r /\ moves[i].from_col = c
                      /\ moves[i].to_row = nr /\ moves[i].to_col = nc

\* The effective rank as claim C8 states it.
EffectiveRankRule(piece, r, c) ==
  IF IsOpposingTrap(piece.player, r, c) THEN 0 ELSE PIECE_INFO[piece.type + 1].rank

\* Two squares holding pieces of opposite sides, the first not on water, the
\* pair neither Rat against Elephant nor Elephant against Rat.
RankPair(board, s, t) ==
  /\ board[s].type # NO_PIECE /\ board[t].type # NO_PIECE
  /\ board[s].player \in Sides
  /\ board[t].player = get_opponent(board[s].player)
  /\ ~ IsWaterSquare(RowOf(s), ColOf(s))
  /\ ~ (board[s].type = PIECE_TYPE_RAT /\ board[t].type = PIECE_TYPE_ELEPHANT)
  /\ ~ (board[s].type = PIECE_TYPE_ELEPHANT /\ board[t].type = PIECE_TYPE_RAT)

\* C8 (rank rule with trap neutralisation): for such a pair can_capture holds
\* iff the attacker's effective rank is at least the defender's, where the
\* effective rank is 0 exactly on a trap of the opposing player and the
\* natural rank elsewhere, own traps included.
C8_RankRule ==
  \A s \in { x \in 0 .. (NumSquares - 1) : wBoard[x].type # NO_PIECE } :
    \A t \in { x \in 0 .. (NumSquares - 1) : wBoard[x].type # NO_PIECE } :
      RankPair(wBoard, s, t) =>
        ( rules_can_capture(wBoard[s], wBoard[t], RowOf(s), ColOf(s), RowOf(t), ColOf(t))
          <=> EffectiveRankRule(wBoard[s], RowOf(s), ColOf(s))
                >= EffectiveRankRule(wBoard[t], RowOf(t), ColOf(t)) )

\* A position played to in which a piece on the enemy's trap can be captured
\* by a weaker neighbour.
C8_Witness ==
  /\ wSteps >= 1
  /\ \E s \in 0 .. (NumSquares - 1), t \in 0 .. (NumSquares - 1) :
       /\ RankPair(wBoard, s, t)
       /\ <<RowOf(t), ColOf(t)>> \in Neighbours(RowOf(s), ColOf(s))
       /\ PIECE_INFO[wBoard[s].type + 1].rank < PIECE_INFO[wBoard[t].type + 1].rank
       /\ IsOpposingTrap(wBoard[t].player, RowOf(t), ColOf(t))
       /\ rules_can_capture(wBoard[s], wBoard[t], RowOf(s), ColOf(s), RowOf(t), ColOf(t))

(***************************************************************************)
(* Properties of findBestMoveWasm and the search                           *)
(***************************************************************************)
\* The moves the generator produces for Player1 on the input board.
RootMoves == generate_all_valid_moves(inBoard, PLAYER1, FALSE)

\* result_buffer[1 .. 5] is move m.
WritesMove(m) ==
  /\ result_buffer[1] = Some(m.from_row)
  /\ result_buffer[2] = Some(m.from_col)
  /\ result_buffer[3] = Some(m.to_row)
  /\ result_buffer[4] = Some(m.to_col)
  /\ result_buffer[5] = Some(m.piece_type)

\* C1: whenever the generator yields a move for Player1 on the input board,
\* whatever max_depth is and whenever the time runs out, the call returns with
\* found = 1 and status = 0, the move written is one of the generator's moves
\* for Player1 on the input board, and depth_reached >= 0.
C1_AlwaysAMove ==
  (Returned /\ RootMoves # << >>) =>
    /\ result_buffer[0] = Some(1)
    /\ result_buffer[9] = Some(0)
    /\ \E k \in 1 .. Len(RootMoves) : WritesMove(RootMoves[k])
    /\ result_buffer[6] # None
    /\ result_buffer[6][1] >= 0

\* A call with max_depth >= 1 whose time ran out before its first iteration
\* was complete has returned a move.
C1_Witness ==
  /\ Returned
  /\ RootMoves # << >>
  /\ inDepth >= 1
  /\ Len(iterLog) = 1
  /\ iterLog[1].in_time # Some(TRUE)
  /\ iterLog[1].scores # << >>
  /\ result_buffer[0] = Some(1)

\* Iteration k got a score that is no timeout sentinel for every root move and
\* passed the time check after its loop.
IterationCompleted(k) ==
  /\ Len(iterLog[k].scores) = Len(iterLog[k].root_moves)
  /\ \A j \in 1 .. Len(iterLog[k].scores) : iterLog[k].scores[j] # TIMEOUT_SENTINEL
  /\ iterLog[k].in_time = Some(TRUE)

\* The last completed iteration, 0 if there is none.
DeepestCompleted ==
  LET done == {k \in 1 .. Len(iterLog) : IterationCompleted(k)}
  IN IF done = {} THEN 0 ELSE CHOOSE k \in done : \A j \in done : j <= k

\* The place of the best root move of a completed iteration: the first one, in
\* the order searched, with the highest score.
BestIndex(it) ==
  CHOOSE j \in 1 .. Len(it.scores) :
    /\ \A l \in 1 .. Len(it.scores) : it.scores[l] <= it.scores[j]
    /\ \A l \in 1 .. (j - 1) : it.scores[l] < it.scores[j]

\* C2: the result reflects only completed iterations.  depth_reached is the
\* depth of the deepest iteration that searched every root move without a
\* timeout sentinel and ended within the time limit, and the move and score
\* written are the best move and best score of that iteration, whatever an
\* aborted later iteration found; with no completed iteration the move is the
\* first generated root move, the score is 0 and depth_reached is 0.
C2_OnlyCompletedIterations ==
  (Returned /\ RootMoves # << >>) =>
    IF DeepestCompleted = 0
    THEN /\ result_buffer[6] = Some(0)
         /\ WritesMove(RootMoves[1])
         /\ result_buffer[8] = Some(0)
    ELSE LET it == iterLog[DeepestCompleted]
         IN /\ result_buffer[6] = Some(it.depth)
            /\ WritesMove(it.root_moves[BestIndex(it)])
            /\ result_buffer[8] = Some(it.scores[BestIndex(it)])

\* A call has returned after an iteration was completed and a later one was
\* aborted, the aborted one having scored a root move other than the committed
\* best move higher than the committed score.
C2_Witness ==
  /\ Returned
  /\ DeepestCompleted >= 1
  /\ DeepestCompleted < Len(iterLog)
  /\ LET last == iterLog[Len(iterLog)]
         it == iterLog[DeepestCompleted]
     IN \E j \in 1 .. Len(last.scores) :
          /\ last.scores[j] # TIMEOUT_SENTINEL
          /\ last.scores[j] > it.scores[BestIndex(it)]
          /\ ~ SameSquares(last.root_moves[j], it.root_moves[BestIndex(it)])

\* C5: a call that finds the time up at its entry returns the sentinel, and
\* a call that receives the sentinel from a call it made (from its move loop,
\* from a re-search at full depth or, negated, from its null-move search)
\* returns the sentinel in its turn with its caller's frame as it was, and
\* without a write to the transposition table, the killer moves or the history
\* table; when the sentinel reaches findBestMoveWasm the search ends with the
\* committed result untouched.
C5_TimeoutPropagation ==
  [][ /\ (stack # << >> /\ Top.pc = "entry" /\ expired' /\ stack' # stack) =>
           /\ stack' = Callers
           /\ ret' = Some(TIMEOUT_SENTINEL)
           /\ UNCHANGED tables
      /\ (ret = Some(TIMEOUT_SENTINEL) /\ stack # << >>) =>
           /\ stack' = Callers
           /\ ret' = Some(TIMEOUT_SENTINEL)
           /\ UNCHANGED tables
      /\ (ret = Some(TIMEOUT_SENTINEL) /\ stack = << >>) =>
           /\ pc' = "done"
           /\ drv' = drv
           /\ UNCHANGED tables ]_vars

\* The sentinel has come back from a null-move search to a call that has
\* callers of its own, after the tables have been written.
C5_Witness ==
  /\ ret = Some(TIMEOUT_SENTINEL)
  /\ Len(stack) >= 2
  /\ Top.pc = "null"
  /\ transposition_table # << >>
  /\ history_heuristic # << >>

\* C9: a call on a board whose game status is not ongoing returns found = 0
\* and a non-zero status without having searched a node.
C9_TerminalInput ==
  (Returned /\ rules_get_game_status(inBoard) # GAME_STATUS_ONGOING) =>
    /\ result_buffer[0] = Some(0)
    /\ result_buffer[9] # None
    /\ result_buffer[9] # Some(0)
    /\ ai_run_counter = 0

\* C10: when the generator yields no move for Player1 on the input board, no
\* alpha_beta or quiescence_search call is ever made, found = 1 is never
\* written, and the call returns with found = 0 and status = 1.
C10_NoLegalMove ==
  RootMoves = << >> =>
    /\ stack = << >>
    /\ ai_run_counter = 0
    /\ result_buffer[0] # Some(1)
    /\ Returned => (result_buffer[0] = Some(0) /\ result_buffer[9] = Some(1))

\* A call has returned on a board where Player1 has a piece but no move.
C10_Witness ==
  /\ Returned
  /\ RootMoves = << >>
  /\ \E s \in 0 .. (NumSquares - 1) :
       inBoard[s].type # NO_PIECE /\ inBoard[s].player = PLAYER1

(***************************************************************************)
(* Repeated calls.                                                         *)
(***************************************************************************)

\* A call that returned within the time limit after an earlier call with
\* the same arguments that did so too.
Replayed == pc = "done" /\ ~ expired /\ calls > 1

\* C11: two calls with the same board and max_depth that both return within
\* the time limit write the same ten result values, whatever the memory the
\* second call does not initialise itself holds.
C11_DeterministicReplay == Replayed => result_buffer = earlier

(***************************************************************************)
(* Scores of decided positions.                                            *)
(***************************************************************************)

\* The step is the return of the call on top of the stack with a score.
Returns ==
  /\ stack # << >>
  /\ stack' = Callers
  /\ ret' # None
  /\ ret' # Some(TIMEOUT_SENTINEL)

Decided(board) == rules_get_game_status(board) # GAME_STATUS_ONGOING

\* The distance-adjusted score of the decided board of call f.
MateScore(f) ==
  CASE rules_get_game_status(f.board) = GAME_STATUS_PLAYER1_WINS -> WIN_SCORE - f.ply
    [] rules_get_game_status(f.board) = GAME_STATUS_PLAYER0_WINS -> LOSE_SCORE + f.ply
    [] OTHER -> DRAW_SCORE

\* C12: a call that finds the game decided on its board, alpha_beta by its
\* terminal test or quiescence_search by its evaluation, returns WIN_SCORE
\* minus its ply for a win of Player1 and LOSE_SCORE plus its ply for a win
\* of Player0, so that the nearer of two wins has the greater score.
C12_MateDistance ==
  [][(Returns /\ Decided(Top.board) /\ (ABTerminal \/ Top.kind = "q"))
       => ret' = Some(MateScore(Top))]_vars

\* The step is the first one of the call on top of the stack, entered with
\* the clock within the limit.
EntersInTime ==
  /\ stack # << >>
  /\ Top.pc = "entry"
  /\ ret = None
  /\ ~ expired'

\* C13: a call of alpha_beta or quiescence_search entered within the time
\* limit on a board whose game is decided returns at once, without
\* generating or searching a move, and its value is WIN_SCORE - ply,
\* LOSE_SCORE + ply or 0 according to the status of the board.
C13_TerminalReturn ==
  [][(EntersInTime /\ Decided(Top.board))
       => /\ stack' = Callers
          /\ ret' = Some(MateScore(Top))
          /\ ~ (QNoCaptures \/ QExpand)]_vars

(***************************************************************************)
(* Repetition.                                                             *)
(***************************************************************************)

\* How many of the calls below the one on top of the stack, its ancestors on
\* the current line, have its hash.
AncestorRepeats ==
  Cardinality({k \in 1 .. (Len(stack) - 1) : stack[k].hash = Top.hash})

\* C14: an alpha_beta call entered within the time limit returns the draw
\* score for a repetition exactly when its ply is above 0 and its hash
\* occurs at least twice among the hashes of its ancestors on the current
\* line; what a sibling, an earlier search of the same node or nothing at
\* all left in the path array is not counted.
C14_RepetitionDetection ==
  [][(EntersInTime /\ Top.kind = "ab")
       => (ABRepetition <=> (Top.ply > 0 /\ AncestorRepeats >= 2))]_vars

(***************************************************************************)
(* Transposition table.                                                    *)
(***************************************************************************)

\* The flag of the result of call f relative to the window its move loop
\* started with.
WindowFlag(f) ==
  IF f.best_score <= f.original_alpha THEN HASH_UPPERBOUND
  ELSE IF f.best_score >= f.loop_beta THEN HASH_LOWERBOUND
  ELSE HASH_EXACT

\* The move loop of the call on top of the stack ends without a timeout.
LoopEnds == ABFinish \/ ABCutoff

\* C15: when the move loop of an alpha_beta call ends without a timeout, the
\* slot of the call's hash holds the hash, the best score, the depth and the
\* best move of the call, and its flag is UpperBound when the best score is
\* at most the alpha the loop started with, LowerBound when it is at least
\* the beta the loop started with, and Exact otherwise, for maximising and
\* minimising calls alike.
C15_StoreClassification ==
  [][LoopEnds =>
       LET f == Scored(Top, ret[1])
           e == TTAt(transposition_table', TTIndex(f.hash))
       IN /\ e.hash_key = f.hash
          /\ e.score = f.best_score
          /\ e.depth = f.depth
          /\ e.flag = WindowFlag(f)
          /\ e.best_move_valid = f.best_move_for_node_valid
          /\ e.best_move_valid => e.best_move = f.best_move_for_node]_vars

\* The entry in the slot of call f can be used by f: same key, depth enough,
\* and f is not a child of the root.
Usable(e, f) == e.hash_key = f.hash /\ e.depth >= f.depth /\ f.ply > 0

\* The window of call f tightened by entry e.
RaisedAlpha(e, f) ==
  IF Usable(e, f) /\ e.flag = HASH_LOWERBOUND /\ e.score > f.alpha THEN e.score ELSE f.alpha

LoweredBeta(e, f) ==
  IF Usable(e, f) /\ e.flag = HASH_UPPERBOUND /\ e.score < f.beta THEN e.score ELSE f.beta

NullFailsHigh == AfterNull /\ ~ NullTimedOut(-ret[1]) /\ -ret[1] >= Top.beta

\* C17: a call starts a null-move search only with allow_null_move set,
\* depth >= 4 and ply > 0, and starts it with allow_null_move unset, depth - 4
\* and the window [-beta, -beta + 1].  When the negated result is at least
\* beta the call returns beta without generating a move, unless the result
\* is a mate score, WIN_SCORE - 2 * MAX_PLY_FOR_KILLERS or more: then it
\* does not return here and goes on to generate its moves.
C17_NullMovePruning ==
  [][/\ ABNullMove =>
          LET f == stack'[Len(stack)]
              child == stack'[Len(stack')]
          IN /\ Top.allow_null_move /\ Top.depth >= 4 /\ Top.ply > 0
             /\ ~ child.allow_null_move
             /\ child.depth = Top.depth - 4
             /\ child.alpha = -f.beta /\ child.beta = -f.beta + 1
     /\ NullFailsHigh =>
          IF -ret[1] >= WIN_SCORE - 2 * MAX_PLY_FOR_KILLERS
          THEN ABExpand \/ ABNoMoves
          ELSE stack' = Callers /\ ret' = Some(Top.beta)]_vars

(***************************************************************************)
(* Range of the scores.                                                    *)
(***************************************************************************)

InScoreRange(v) == LOSE_SCORE <= v /\ v <= WIN_SCORE

\* C18: every value alpha_beta or quiescence_search returns, the timeout
\* value apart, and every score in the transposition table lies between
\* LOSE_SCORE and WIN_SCORE.
C18_ScoreRange ==
  /\ (ret # None /\ ret # Some(TIMEOUT_SENTINEL)) => InScoreRange(ret[1])
  /\ \A idx \in DOMAIN transposition_table : InScoreRange(transposition_table[idx].score)

(***************************************************************************)
(* Move ordering.                                                          *)
(***************************************************************************)

\* The priority class of move m in a call of order_moves: 4 the table move,
\* 3 a capture, 2 the first killer of the ply, 1 the second, 0 another quiet
\* move.
OrderClass(m, call) ==
  IF call.tt_move_valid /\ SameSquares(m, call.tt_move) THEN 4
  ELSE IF m.captured_piece_type # NO_PIECE THEN 3
  ELSE IF call.ply < 0 \/ call.ply >= MAX_PLY_FOR_KILLERS THEN 0
  ELSE IF killer_moves[call.ply][1].valid /\ SameSquares(m, killer_moves[call.ply][1].move) THEN 2
  ELSE IF killer_moves[call.ply][2].valid /\ SameSquares(m, killer_moves[call.ply][2].move) THEN 1
  ELSE 0

Unscored(m) == [m EXCEPT !.order_score = 0]

\* C19: order_moves leaves a permutation of its input, changed only in
\* order_score, in non-increasing order_score, and with the priority classes
\* in order: the table move, then the captures with the more valuable
\* victim first, then the first killer of the ply, then the second, then
\* the other quiet moves by history counter.
C19_MoveOrdering ==
  (ordering # None /\ ordering[1].sorted # None) =>
    LET call == ordering[1]
        in == call.moves
        out == call.sorted[1]
        Victim(m) == PIECE_INFO[m.captured_piece_type + 1].value
        Counter(m) ==
          HistoryAt(history_heuristic, get_history_index(m.piece_type, m.to_row, m.to_col))
    IN /\ Len(out) = Len(in)
       /\ \A m \in {in[i] : i \in 1 .. Len(in)} :
            Cardinality({i \in 1 .. Len(out) : Unscored(out[i]) = Unscored(m)})
              = Cardinality({i \in 1 .. Len(in) : in[i] = m})
       /\ \A i, j \in 1 .. Len(out) :
            i < j =>
              /\ out[i].order_score >= out[j].order_score
              /\ OrderClass(out[i], call) >= OrderClass(out[j], call)
              /\ (OrderClass(out[i], call) = 3 /\ OrderClass(out[j], call) = 3)
                   => Victim(out[i]) >= Victim(out[j])
              /\ (OrderClass(out[i], call) = 0 /\ OrderClass(out[j], call) = 0)
                   => Counter(out[i]) >= Counter(out[j])

(***************************************************************************)
(* Depth of the recursion.                                                 *)
(***************************************************************************)

\* The alpha_beta and quiescence_search invocations that are open.  An
\* alpha_beta call at depth <= 0 returns what quiescence_search returns (line
\* 515) and stays open until then; ABQuiesce has put the quiescence call in
\* its place on the stack, so it is counted here with the call that has
\* q_depth 0.
Nesting ==
  Len(stack) + Cardinality({k \in 1 .. Len(stack) : stack[k].kind = "q" /\ stack[k].depth = 0})

\* Call callee, made by caller, has the smaller depth (alpha_beta), the next
\* q_depth, at most MAX_Q_DEPTH (quiescence_search).
Descends(caller, callee) ==
  IF callee.kind = "ab"
  THEN caller.kind = "ab" /\ callee.depth < caller.depth
  ELSE /\ callee.depth <= MAX_Q_DEPTH
       /\ callee.depth = (IF caller.kind = "q" THEN caller.depth + 1 ELSE 0)

\* C20: every alpha_beta call made by alpha_beta has a smaller depth than its
\* caller and the calls of the driver a depth below max_depth, every
\* quiescence_search call made by quiescence_search has the next q_depth,
\* never above MAX_Q_DEPTH, and at no time are more than
\* max_depth + MAX_Q_DEPTH invocations of the two functions open.
C20_BoundedRecursion ==
  /\ \A k \in 1 .. Len(stack) - 1 : Descends(stack[k], stack[k + 1])
  /\ stack # << >> => stack[1].depth < inDepth
  /\ Nesting <= inDepth + MAX_Q_DEPTH

(***************************************************************************)
(* The path array.                                                         *)
(***************************************************************************)

\* An alpha_beta call gets past its clock test: it runs the repetition test,
\* which reads path_hashes[0 .. path_hash_count - 1] and, when one of them
\* holds the hash, path_hashes[0 .. path_hash_count], and, unless it returns
\* the draw score, writes path_hashes[path_hash_count].
UsesPath == EnterNode(FALSE)

\* C21: whatever max_depth is, every index at which an alpha_beta call reads
\* or writes the path array, the largest of which is its path_hash_count, is
\* one of the MAX_PLY_FOR_KILLERS + 5 = 35 slots of path_hashes_main.
C21_PathBounds ==
  [][UsesPath => Top.path_hash_count \in 0 .. (PathSlots - 1)]_vars

====
